---- MODULE Spec2Model ----
(***************************************************************************)
(* State-machine model of the PAI Telegram bridge session layer            *)
(* (bridge-go/session.go, bridge-go/bot.go, the memory manager).           *)
(*                                                                         *)
(* Specifications:                                                         *)
(*   Spec      - the session registry: turns (SendMessage), /clear         *)
(*               (KillSession), /cd (GetSession, CreateSession,            *)
(*               SetWorkDir), the sweeper (CleanStale), asynchronous       *)
(*               flushes, the clock and a daemon restart (loadFromDisk).   *)
(*   QueueSpec - the follow-up queue of one busy session: concurrent       *)
(*               enqueues and drainPending calls, step by step under the   *)
(*               queue lock, and buildBatch on what a drain returned.      *)
(*   DispatchSpec - the calling layer around SendMessage for one user:     *)
(*               still-busy routes the message into the queue, a           *)
(*               successful return drains it and feeds the batch as a new  *)
(*               turn; every handler that has begun keeps running (weak    *)
(*               fairness), new messages need not arrive.                  *)
(*   MemorySpec - one user's session with the memory manager: the          *)
(*               conversation log (LogTurn), the summary flush             *)
(*               (FlushSession) of /clear, of the sweeper and of the       *)
(*               graceful shutdown (FlushAll, then the process exits and   *)
(*               is started again).                                        *)
(*                                                                         *)
(* Time is counted in minutes; the code's millisecond arithmetic is kept   *)
(* by multiplying with MsPerMinute where the code compares milliseconds.   *)
(* Snapshot writes (os.WriteFile) are modelled as succeeding.              *)
(***************************************************************************)
EXTENDS Integers, Sequences, FiniteSets, TLC

(* ------------------------------ bounds -------------------------------- *)
MaxOps          == 3   \* operations begun in one behaviour: updates handled
                       \* (message, /clear, /cd), sweeper runs, clock ticks,
                       \* restarts
MaxConcurrent   == 1   \* config sessions.max_concurrent of the modelled run
TimeoutMinutes  == 0   \* config sessions.timeout_minutes of the modelled run
MaxEnq          == 4   \* enqueue calls made in one behaviour of QueueSpec

(* ------------------------- program constants -------------------------- *)
MsPerMinute     == 60000
ResetIdleMs     == 300000
maxPendingMessages == 20

Users          == {"u1", "u2"}
IDNames        == <<"s1", "s2", "s3", "s4", "s5", "s6", "s7", "s8">>
Slots          == {1, 2}
DefaultWorkDir == "/mnt/pai-data/projects"
OtherWorkDir   == "/mnt/pai-data/projects/x"
WorkDirs       == {DefaultWorkDir, OtherWorkDir}
DefaultModel   == "default-model"
ConvIDs        == {"c1"}
PipeFailures   == {"stdin pipe", "stdout pipe", "stderr pipe", "start claude"}
Exits          == {"ok", "notfound", "stderr", "silent"}

VARIABLES
    sessions,    \* sm.sessions: user id -> Session
    disk,        \* sessions.json: the set of Session records last written
    procs,       \* sm.procs: session id -> the turn holding the cancel handle
    nextID,      \* the next fresh session id
    now,         \* wall clock, minutes
    turn,        \* the SendMessage invocations (one per handler slot)
    kill,        \* the /clear handler (KillSession)
    cd,          \* the /cd handler
    flushQueue,  \* session ids with an asynchronous FlushSession scheduled
    flushed,     \* session ids whose FlushSession call has completed
    ops,         \* operations begun so far
    pending,     \* session.pending of the session of QueueUser
    pendingMu,   \* session.pendingMu: "" or the process holding it
    enq,         \* the enqueue calls (one per producer)
    drn,         \* the drainPending call
    calls,       \* enqueue calls begun so far
    acceptLog,   \* the messages enqueue accepted, in the order it accepted
    drainLog,    \* what the drains returned, one result after the other
    built,       \* the batch buildBatch made of the last drain result
    payload,     \* per handler: the messages its turn carries
    behind,      \* queued message -> the handler whose turn it waits for
    owed,        \* messages whose turn has returned successfully
    fed,         \* messages accepted by the Runner as part of a batch turn
    convLog,     \* conversations/{user}/{session}.jsonl: session id -> roles logged
    summaries,   \* session ids with a summary file under summaries/{user}/
    flushCalls,  \* the FlushSession calls the teardown paths have made
    text,        \* per handler: the text of its message
    logged,      \* per handler: LogTurn of the user's turn has run
    shut,        \* the shutdown handler of main (FlushAll)
    cfg,         \* config.Sessions of the sweeper runs (timeout, reset hour, clock)
    sweep,       \* the ticker goroutine's CleanStale call
    environ,     \* os.Environ() of the bridge, and of a second bridge beside it
    credential,  \* sm.claudeCredential != nil
    spawned,     \* the environments of the subprocess last started
    reply,       \* result.Text of a turn, line by line, and the file system
    sent,        \* what handleMessage sent to the chat for it
    prior,       \* per handler: the user's session as SendMessage found it
    batch,       \* a drained list of messages and what buildBatch made of it
    allowed,     \* config.AllowedUsers
    stopCh,      \* b.stopCh is closed
    poll,        \* the long poll of Bot.Start
    inbox,       \* per handler goroutine: the update it was started with
    retention,   \* the tick of the last sweep and the CleanOldFiles runs started
    smMu,        \* sm.mu: the goroutines holding the registry lock
    lk,          \* per goroutine of the lock model: its operation and position
    files,       \* the summary files on disk: path |-> content
    stream,      \* the stdout lines of a subprocess and what the turn made of them
    tree,        \* the files under the memory base path and the retention pass
    rate,        \* the rate map of the bot and the calls made so far
    race         \* handlers and a sweeper that destroy sessions, and their tallies

queueVars == <<pending, pendingMu, enq, drn, calls, acceptLog, drainLog, built>>

dispatchVars == <<payload, behind, owed, fed>>

memVars == <<convLog, summaries, flushCalls, text, logged, shut>>

sweepVars == <<cfg, sweep>>

envVars == <<environ, credential, spawned>>

sendVars == <<reply, sent>>

turnVars == <<prior>>

batchVars == <<batch>>

botVars == <<allowed, stopCh, poll, inbox>>

retentionVars == <<retention>>

lockVars == <<smMu, lk>>

summaryVars == <<files>>

streamVars == <<stream>>

treeVars == <<tree>>

rateVars == <<rate>>

raceVars == <<race>>

vars == <<sessions, disk, procs, nextID, now, turn, kill, cd,
          flushQueue, flushed, ops, queueVars, dispatchVars, memVars,
          sweepVars, envVars, sendVars, turnVars, batchVars, botVars,
          retentionVars, lockVars, summaryVars, streamVars, treeVars, rateVars, raceVars>>

(* ------------------------------ helpers ------------------------------- *)
EmptyMap == [x \in {} |-> 0]

Restrict(f, S) == [x \in S |-> f[x]]

Put(f, k, v) == (k :> v) @@ f

Remove(f, k) == Restrict(f, DOMAIN f \ {k})

Range(s) == {s[i] : i \in 1..Len(s)}

SessionIDs(reg) == {reg[u].ID : u \in DOMAIN reg}

NoCommand == [prompt |-> <<>>, args |-> <<>>]

IdleTurn == [pc |-> "idle", user |-> "", sid |-> "", claude |-> "",
             hasResume |-> FALSE, cancelled |-> FALSE, exit |-> "", res |-> "",
             cmd |-> NoCommand, workDir |-> ""]

(* session.go line 376 *)
isFirst(claudeSessionID) == claudeSessionID = ""

MessageText_NoPreface(claudeSessionID) == <<"text">>

(* session.go lines 378-384: the parts of the prompt; a first message gets *)
(* the bridge context, the recent context and the daily notes in front     *)
MessageText(claudeSessionID) ==
    IF isFirst(claudeSessionID)
    THEN <<"bridgeContext", "recentContext", "dailyNotes", "text">>
    ELSE <<"text">>

(* session.go lines 396-410: the arguments of the subprocess; with a       *)
(* binary attachment the prompt goes to stdin instead (lines 431-487)      *)
Args(claudeSessionID) ==
    <<"-p", "--model">>
    \o (IF claudeSessionID # "" THEN <<"--resume", claudeSessionID>> ELSE <<>>)

(* the command SendMessage builds for a session with this conversation id *)
Command(claudeSessionID) ==
    [prompt |-> MessageText(claudeSessionID), args |-> Args(claudeSessionID)]

IdleKill == [pc |-> "idle", user |-> "", sid |-> "", count |-> 0,
             found |-> FALSE, res |-> FALSE]

IdleCd == [pc |-> "idle", user |-> "", chat |-> "", sawNil |-> FALSE]

Producers == {"p1", "p2"}
Drainer   == "d"
QueueUser == "u1"

IdleEnq == [pc |-> "idle", msg |-> 0, full |-> FALSE, depth |-> 0]

IdleDrn == [pc |-> "idle", old |-> <<>>]

(* a nil slice: the zero value of session.pending *)
NilQueue == [isNil |-> TRUE, items |-> <<>>]

QueueIdle ==
    /\ pending = NilQueue
    /\ pendingMu = ""
    /\ enq = [p \in Producers |-> IdleEnq]
    /\ drn = IdleDrn
    /\ calls = 0
    /\ acceptLog = <<>>
    /\ drainLog = <<>>
    /\ built = <<>>

DispatchIdle ==
    /\ payload = [t \in Slots |-> <<>>]
    /\ behind = EmptyMap
    /\ owed = {}
    /\ fed = {}

IdleShut == [pc |-> "idle", toFlush |-> {}]

MemIdle ==
    /\ convLog = EmptyMap
    /\ summaries = {}
    /\ flushCalls = {}
    /\ text = [t \in Slots |-> ""]
    /\ logged = [t \in Slots |-> FALSE]
    /\ shut = IdleShut

IdleSweep == [pc |-> "idle", cleaned |-> 0, before |-> EmptyMap, at |-> 0]

(* the sweeper of Spec: timeout TimeoutMinutes, clock origin at midnight *)
SweepIdle ==
    /\ cfg = [timeoutMinutes |-> TimeoutMinutes, resetHour |-> -1, origin |-> 0]
    /\ sweep = IdleSweep

NoSpawn == [kind |-> "none", env |-> <<>>, twin |-> <<>>]

EnvIdle ==
    /\ environ = << <<>>, <<>> >>
    /\ credential = FALSE
    /\ spawned = NoSpawn

NoReply == [lines |-> <<>>, home |-> <<>>, missing |-> {}]

NoSent == [handled |-> FALSE, text |-> <<>>, files |-> <<>>]

(* no session yet under the user id *)
NoSession == [ID |-> ""]

TurnIdle == prior = [t \in Slots |-> NoSession]

NoBatch == [msgs |-> <<>>, built |-> FALSE, text |-> <<>>, attachment |-> <<>>]

BatchIdle == batch = NoBatch

NoUpdate == [pc |-> "idle", from |-> "", kind |-> ""]

BotIdle ==
    /\ allowed = {}
    /\ stopCh = FALSE
    /\ poll = "idle"
    /\ inbox = [t \in Slots |-> NoUpdate]

NoRetention == [last |-> 0, runs |-> <<>>]

RetentionIdle == retention = NoRetention

(* the goroutines of the lock model *)
Goroutines == {"g1", "g2", "g3"}

IdleGoroutine == [prog |-> "", i |-> 0]

LockIdle ==
    /\ smMu = {}
    /\ lk = [g \in Goroutines |-> IdleGoroutine]

SummaryIdle == files = EmptyMap

NoStream == [lines |-> <<>>, read |-> 0, fullResponse |-> <<>>, createdFiles |-> <<>>]

StreamIdle == stream = NoStream

NoTree == [files |-> {}, days |-> 0, enabled |-> FALSE, clock |-> 0, passed |-> FALSE,
           before |-> {}]

TreeIdle == tree = NoTree

NoRate == [rateMap |-> EmptyMap, plain |-> EmptyMap, clock |-> 0, steps |-> 0,
           cleans |-> 0, calls |-> <<>>]

RateIdle == rate = NoRate

(* the session ids of the destruction race *)
RaceIDs == {"s1", "s2"}

Handlers == {1, 2}

NoRace == [k |-> [h \in Handlers |-> IdleKill], removed |-> [id \in RaceIDs |-> 0],
           flushes |-> [id \in RaceIDs |-> 0], credited |-> 0, calls |-> 0]

RaceIdle == race = NoRace

SendIdle ==
    /\ reply = NoReply
    /\ sent = NoSent

(* Session literal of CreateSession / SendMessage *)
NewSession(id, u, chat) ==
    [ID |-> id, UserID |-> u, ChatID |-> chat, WorkDir |-> DefaultWorkDir,
     Model |-> DefaultModel, CreatedAt |-> now, LastActivityAt |-> now,
     MessageCount |-> 0, Status |-> "active", ClaudeSessionID |-> ""]

(* json.MarshalIndent of a Session: the fields under their json tags,      *)
(* claudeSessionId left out when empty (omitempty)                         *)
marshalSession(s) ==
    LET base == [id |-> s.ID, userId |-> s.UserID, chatId |-> s.ChatID,
                 workDir |-> s.WorkDir, model |-> s.Model,
                 createdAt |-> s.CreatedAt, lastActivityAt |-> s.LastActivityAt,
                 messageCount |-> s.MessageCount, status |-> s.Status]
    IN  IF s.ClaudeSessionID = "" THEN base
        ELSE base @@ ("claudeSessionId" :> s.ClaudeSessionID)

unmarshalSession_DropConversation(j) ==
    [ID |-> j.id, UserID |-> j.userId, ChatID |-> j.chatId, WorkDir |-> j.workDir,
     Model |-> j.model, CreatedAt |-> j.createdAt,
     LastActivityAt |-> j.lastActivityAt, MessageCount |-> j.messageCount,
     Status |-> j.status, ClaudeSessionID |-> ""]

(* json.Unmarshal into a Session: a missing field keeps the zero value *)
unmarshalSession(j) ==
    [ID |-> j.id, UserID |-> j.userId, ChatID |-> j.chatId, WorkDir |-> j.workDir,
     Model |-> j.model, CreatedAt |-> j.createdAt,
     LastActivityAt |-> j.lastActivityAt, MessageCount |-> j.messageCount,
     Status |-> j.status,
     ClaudeSessionID |-> IF "claudeSessionId" \in DOMAIN j
                         THEN j.claudeSessionId ELSE ""]

(* saveToDisk: the array of all sessions of the map, marshalled *)
saveToDisk(reg) == {marshalSession(reg[u]) : u \in DOMAIN reg}

loadFromDisk_ByID(d) ==
    LET coerced == {[unmarshalSession(j) EXCEPT !.Status = "active"] : j \in d}
        keys    == {s.ID : s \in coerced}
    IN  {f \in [keys -> coerced] : \A k \in keys : f[k].ID = k}

(* loadFromDisk: every stored session, status coerced to active, is put   *)
(* under its UserID; were two stored under one key, array order decides.   *)
loadFromDisk(d) ==
    LET coerced == {[unmarshalSession(j) EXCEPT !.Status = "active"] : j \in d}
        keys    == {s.UserID : s \in coerced}
    IN  {f \in [keys -> coerced] : \A k \in keys : f[k].UserID = k}

(* the count both CanCreate and SendMessage make: sessions not "idle" *)
ActiveCount(reg) == Cardinality({u \in DOMAIN reg : reg[u].Status # "idle"})

StillBusy_Never(reg, u) == FALSE

(* SendMessage, lines 324-328 *)
StillBusy(reg, u) == u \in DOMAIN reg /\ reg[u].Status = "busy"

(* SendMessage, lines 329-340 *)
CapReached(reg, u) == u \notin DOMAIN reg /\ ActiveCount(reg) >= MaxConcurrent

(* cancel(): the turn registered under the session id is cancelled *)
Cancel(tn, pr, ids) ==
    [t \in Slots |->
        IF \E id \in ids \cap DOMAIN pr : pr[id] = t
        THEN [tn[t] EXCEPT !.cancelled = TRUE] ELSE tn[t]]

(* one more operation begins *)
Op == ops < MaxOps /\ ops' = ops + 1

(* ------------------------------- Init --------------------------------- *)
Init ==
    /\ disk = {}
    /\ sessions \in loadFromDisk(disk)
    /\ procs = EmptyMap
    /\ nextID = 1
    /\ now = 0
    /\ turn = [t \in Slots |-> IdleTurn]
    /\ kill = IdleKill
    /\ cd = IdleCd
    /\ flushQueue = {}
    /\ flushed = {}
    /\ ops = 0
    /\ QueueIdle
    /\ DispatchIdle
    /\ MemIdle
    /\ SweepIdle
    /\ EnvIdle
    /\ SendIdle
    /\ TurnIdle
    /\ BatchIdle
    /\ BotIdle
    /\ RetentionIdle
    /\ LockIdle
    /\ SummaryIdle
    /\ StreamIdle
    /\ TreeIdle
    /\ RateIdle
    /\ RaceIdle

(* ------------------------- SendMessage (a turn) ----------------------- *)
FreeSlot(t) == turn[t].pc = "idle" /\ \A t2 \in Slots : turn[t2].pc = "idle" => t <= t2

(* lines 322-364: the locked entry *)
SendMessageLocked(t, u) ==
    /\ IF StillBusy(sessions, u)
       THEN /\ turn' = [turn EXCEPT ![t] = [IdleTurn EXCEPT !.pc = "ret", !.user = u,
                                            !.res = "still-busy"]]
            /\ UNCHANGED <<sessions, nextID>>
       ELSE IF CapReached(sessions, u)
       THEN /\ turn' = [turn EXCEPT ![t] = [IdleTurn EXCEPT !.pc = "ret", !.user = u,
                                            !.res = "concurrency-cap"]]
            /\ UNCHANGED <<sessions, nextID>>
       ELSE LET fresh == u \notin DOMAIN sessions
                s0 == IF fresh THEN NewSession(IDNames[nextID], u, u) ELSE sessions[u]
                s1 == [s0 EXCEPT !.Status = "busy", !.LastActivityAt = now,
                                 !.MessageCount = @ + 1]
            IN  /\ sessions' = Put(sessions, u, s1)
                /\ nextID' = IF fresh THEN nextID + 1 ELSE nextID
                /\ turn' = [turn EXCEPT ![t] =
                       [IdleTurn EXCEPT !.pc = "spawn", !.user = u, !.sid = s1.ID,
                                        !.claude = s1.ClaudeSessionID,
                                        !.hasResume = (s1.ClaudeSessionID # ""),
                                        !.cmd = Command(s1.ClaudeSessionID),
                                        !.workDir = s1.WorkDir]]
    /\ UNCHANGED <<disk, procs, now, kill, cd, flushQueue, flushed>>

(* a handler goroutine calls SendMessage *)
SendMessageEnter(t, u) ==
    /\ FreeSlot(t)
    /\ Op
    /\ SendMessageLocked(t, u)

(* lines 431-504: a pipe cannot be created or the subprocess cannot start *)
SendMessagePipeFail(t, kind) ==
    /\ turn[t].pc = "spawn"
    /\ turn' = [turn EXCEPT ![t].pc = "ret", ![t].res = "spawn-failed"]
    /\ UNCHANGED <<sessions, disk, procs, nextID, now, kill, cd, flushQueue,
                   flushed, ops>>

(* lines 501-509: cmd.Start succeeded, the cancel handle is registered *)
SendMessageStart(t) ==
    /\ turn[t].pc = "spawn"
    /\ procs' = Put(procs, turn[t].sid, t)
    /\ turn' = [turn EXCEPT ![t].pc = "run"]
    /\ UNCHANGED <<sessions, disk, nextID, now, kill, cd, flushQueue, flushed, ops>>

(* lines 528-539: a system record carrying a session id *)
SendMessageEvent(t, sid) ==
    /\ turn[t].pc = "run"
    /\ turn[t].claude = ""
    /\ sessions' = IF turn[t].user \in DOMAIN sessions
                   THEN [sessions EXCEPT ![turn[t].user].ClaudeSessionID = sid]
                   ELSE sessions
    /\ turn' = [turn EXCEPT ![t].claude = sid]
    /\ disk' = saveToDisk(sessions')
    /\ UNCHANGED <<procs, nextID, now, kill, cd, flushQueue, flushed, ops>>

SendMessageWait_KeepHandle(t, exit) ==
    /\ turn[t].pc = "run"
    /\ sessions' = IF turn[t].user \in DOMAIN sessions
                   THEN [sessions EXCEPT ![turn[t].user].Status = "active"]
                   ELSE sessions
    /\ disk' = saveToDisk(sessions')
    /\ turn' = [turn EXCEPT ![t].pc = "exited", ![t].exit = exit]
    /\ UNCHANGED <<procs, nextID, now, kill, cd, flushQueue, flushed, ops>>

(* lines 560-571: cmd.Wait and the cleanup under the lock *)
SendMessageWait(t, exit) ==
    /\ turn[t].pc = "run"
    /\ procs' = Remove(procs, turn[t].sid)
    /\ sessions' = IF turn[t].user \in DOMAIN sessions
                   THEN [sessions EXCEPT ![turn[t].user].Status = "active"]
                   ELSE sessions
    /\ disk' = saveToDisk(sessions')
    /\ turn' = [turn EXCEPT ![t].pc = "exited", ![t].exit = exit]
    /\ UNCHANGED <<nextID, now, kill, cd, flushQueue, flushed, ops>>

Outcome_AnyExitFails(exit, hasResume) ==
    IF exit = "notfound" /\ hasResume THEN "session-expired"
    ELSE IF exit # "ok" THEN "assistant-failed"
    ELSE "ok"

(* lines 573-598: what SendMessage returns for an exit of the subprocess:  *)
(* "notfound" is a non-zero exit with "Could not find session" on stderr,  *)
(* "stderr" one with any other text on stderr, "silent" one with nothing   *)
Outcome(exit, hasResume) ==
    IF exit = "notfound" /\ hasResume THEN "session-expired"
    ELSE IF exit \in {"notfound", "stderr"} THEN "assistant-failed"
    ELSE "ok"

(* lines 573-598: the exit status is interpreted *)
SendMessageFinish(t) ==
    /\ turn[t].pc = "exited"
    /\ IF Outcome(turn[t].exit, turn[t].hasResume) = "session-expired"
       THEN /\ sessions' = IF turn[t].user \in DOMAIN sessions
                           THEN [sessions EXCEPT ![turn[t].user].ClaudeSessionID = ""]
                           ELSE sessions
            /\ disk' = saveToDisk(sessions')
       ELSE UNCHANGED <<sessions, disk>>
    /\ turn' = [turn EXCEPT ![t].pc = "ret",
                            ![t].res = Outcome(turn[t].exit, turn[t].hasResume)]
    /\ UNCHANGED <<procs, nextID, now, kill, cd, flushQueue, flushed, ops>>

(* the caller (Bot.handleMessage) has the result *)
SendMessageReturn(t) ==
    /\ turn[t].pc = "ret"
    /\ turn' = [turn EXCEPT ![t] = IdleTurn]
    /\ UNCHANGED <<sessions, disk, procs, nextID, now, kill, cd, flushQueue,
                   flushed, ops>>

(* --------------------------- /clear: KillSession ---------------------- *)
(* lines 160-180: lookup, cancel, delete and snapshot under the lock *)
KillSessionLocked(u) ==
    /\ kill.pc = "idle"
    /\ Op
    /\ IF u \notin DOMAIN sessions
       THEN /\ kill' = [IdleKill EXCEPT !.pc = "ret", !.user = u, !.res = FALSE]
            /\ UNCHANGED <<sessions, disk, procs, turn>>
       ELSE LET s == sessions[u]
            IN  /\ turn' = Cancel(turn, procs, {s.ID})
                /\ procs' = Remove(procs, s.ID)
                /\ sessions' = Remove(sessions, u)
                /\ disk' = saveToDisk(sessions')
                /\ kill' = [pc |-> "flush", user |-> u, sid |-> s.ID,
                            count |-> s.MessageCount, found |-> TRUE, res |-> FALSE]
    /\ UNCHANGED <<nextID, now, cd, flushQueue, flushed>>

KillNeedsFlush_Never(msgCount) == FALSE

(* line 183 *)
KillNeedsFlush(msgCount) == msgCount > 0

(* lines 182-187: the synchronous flush, then return true *)
KillSessionFlush ==
    /\ kill.pc = "flush"
    /\ flushed' = IF KillNeedsFlush(kill.count) THEN flushed \cup {kill.sid} ELSE flushed
    /\ kill' = [kill EXCEPT !.pc = "ret", !.res = TRUE]
    /\ UNCHANGED <<sessions, disk, procs, nextID, now, turn, cd, flushQueue, ops>>

(* Bot.handleCommand (clear) has the result *)
KillSessionReturn ==
    /\ kill.pc = "ret"
    /\ kill' = IdleKill
    /\ UNCHANGED <<sessions, disk, procs, nextID, now, turn, cd, flushQueue,
                   flushed, ops>>

(* ------------------------------- /cd ---------------------------------- *)
(* bot.go line 186: GetSession *)
CdGetSession(u, chat) ==
    /\ cd.pc = "idle"
    /\ Op
    /\ cd' = [pc |-> "got", user |-> u, chat |-> chat,
              sawNil |-> (u \notin DOMAIN sessions)]
    /\ UNCHANGED <<sessions, disk, procs, nextID, now, turn, kill, flushQueue,
                   flushed>>

(* session.go lines 140-158: CreateSession, called when GetSession saw nil *)
CreateSession(u, chat) ==
    /\ sessions' = Put(sessions, u, NewSession(IDNames[nextID], u, chat))
    /\ nextID' = nextID + 1
    /\ disk' = saveToDisk(sessions')

CdCreateSession ==
    /\ cd.pc = "got"
    /\ cd.sawNil
    /\ CreateSession(cd.user, cd.chat)
    /\ cd' = [cd EXCEPT !.pc = "set"]
    /\ UNCHANGED <<procs, now, turn, kill, flushQueue, flushed, ops>>

SetWorkDir_Create(u, dir) ==
    /\ sessions' = Put(sessions, u,
                       [(IF u \in DOMAIN sessions THEN sessions[u]
                         ELSE NewSession(IDNames[nextID], u, u)) EXCEPT !.WorkDir = dir])
    /\ disk' = saveToDisk(sessions')

(* SetWorkDir (bot.go line 190): sets the working directory of the user's *)
(* session, a no-op when the session is absent; the change is snapshotted *)
SetWorkDir(u, dir) ==
    /\ sessions' = IF u \in DOMAIN sessions
                   THEN [sessions EXCEPT ![u].WorkDir = dir] ELSE sessions
    /\ disk' = IF u \in DOMAIN sessions THEN saveToDisk(sessions') ELSE disk

CdSetWorkDir(dir) ==
    /\ cd.pc = "set" \/ (cd.pc = "got" /\ ~cd.sawNil)
    /\ SetWorkDir(cd.user, dir)
    /\ cd' = IdleCd
    /\ UNCHANGED <<procs, nextID, now, turn, kill, flushQueue, flushed, ops>>

(* ----------------------- the sweeper: CleanStale ---------------------- *)
(* lines 241-247: the daily reset is on in the reset hour, if one is set *)
DailyResetActive(resetHour, currentHour) ==
    resetHour >= 0 /\ currentHour = resetHour

ShouldClean_AtLeast(timeoutMinutes, idleMs, dailyResetActive) ==
    \/ idleMs >= timeoutMinutes * MsPerMinute
    \/ dailyResetActive /\ idleMs >= ResetIdleMs

(* lines 237, 256-266: the decision for one session that is not busy *)
ShouldClean(timeoutMinutes, idleMs, dailyResetActive) ==
    \/ idleMs > timeoutMinutes * MsPerMinute
    \/ dailyResetActive /\ idleMs > ResetIdleMs

(* lines 251-283: the sessions one run removes *)
StaleUsers(reg, timeoutMinutes, dailyResetActive) ==
    {u \in DOMAIN reg :
        /\ reg[u].Status # "busy"
        /\ ShouldClean(timeoutMinutes, (now - reg[u].LastActivityAt) * MsPerMinute,
                       dailyResetActive)}

(* line 274: a cleaned session is flushed only if it has messages *)
StaleNeedsFlush(msgCount) == msgCount > 0

(* lines 267-299: what one run does with the sessions it found stale *)
Sweep(stale) ==
    LET ids == {sessions[u].ID : u \in stale}
    IN  /\ turn' = Cancel(turn, procs, ids)
        /\ procs' = Restrict(procs, DOMAIN procs \ ids)
        /\ flushQueue' = flushQueue \cup
                           {sessions[u].ID : u \in {v \in stale :
                                                       StaleNeedsFlush(sessions[v].MessageCount)}}
        /\ sessions' = Restrict(sessions, DOMAIN sessions \ stale)
        /\ disk' = IF stale # {} THEN saveToDisk(sessions') ELSE disk
        /\ UNCHANGED <<nextID, now, kill, cd, flushed>>

(* lines 234-302; dailyResetActive: the current hour is the reset hour *)
CleanStale(dailyResetActive) ==
    /\ Op
    /\ Sweep(StaleUsers(sessions, TimeoutMinutes, dailyResetActive))

(* line 293: go sm.memory.FlushSession(...) runs *)
FlushAsync(id) ==
    /\ id \in flushQueue
    /\ flushQueue' = flushQueue \ {id}
    /\ flushed' = flushed \cup {id}
    /\ UNCHANGED <<sessions, disk, procs, nextID, now, turn, kill, cd, ops>>

(* ------------------------- clock and restart -------------------------- *)
Tick ==
    /\ Op
    /\ now' = now + 1
    /\ UNCHANGED <<sessions, disk, procs, nextID, turn, kill, cd, flushQueue,
                   flushed>>

(* the daemon dies and is started again: NewSessionManager, lines 58-83 *)
Reload ==
    /\ sessions' \in loadFromDisk(disk)
    /\ procs' = EmptyMap
    /\ turn' = [t \in Slots |-> IdleTurn]
    /\ kill' = IdleKill
    /\ cd' = IdleCd
    /\ flushQueue' = {}
    /\ UNCHANGED <<disk, nextID, now, flushed>>

Restart == Op /\ Reload

(* ------------------------------ Next ---------------------------------- *)
Next ==
    \/ (\E t \in Slots, u \in Users : SendMessageEnter(t, u)) /\ UNCHANGED <<queueVars, dispatchVars, memVars, sweepVars, envVars, sendVars, turnVars, batchVars, botVars, retentionVars, lockVars, summaryVars, streamVars, treeVars, rateVars, raceVars>>
    \/ (\E t \in Slots, k \in PipeFailures : SendMessagePipeFail(t, k)) /\ UNCHANGED <<queueVars, dispatchVars, memVars, sweepVars, envVars, sendVars, turnVars, batchVars, botVars, retentionVars, lockVars, summaryVars, streamVars, treeVars, rateVars, raceVars>>
    \/ (\E t \in Slots : SendMessageStart(t)) /\ UNCHANGED <<queueVars, dispatchVars, memVars, sweepVars, envVars, sendVars, turnVars, batchVars, botVars, retentionVars, lockVars, summaryVars, streamVars, treeVars, rateVars, raceVars>>
    \/ (\E t \in Slots, c \in ConvIDs : SendMessageEvent(t, c)) /\ UNCHANGED <<queueVars, dispatchVars, memVars, sweepVars, envVars, sendVars, turnVars, batchVars, botVars, retentionVars, lockVars, summaryVars, streamVars, treeVars, rateVars, raceVars>>
    \/ (\E t \in Slots, e \in Exits : SendMessageWait(t, e)) /\ UNCHANGED <<queueVars, dispatchVars, memVars, sweepVars, envVars, sendVars, turnVars, batchVars, botVars, retentionVars, lockVars, summaryVars, streamVars, treeVars, rateVars, raceVars>>
    \/ (\E t \in Slots : SendMessageFinish(t)) /\ UNCHANGED <<queueVars, dispatchVars, memVars, sweepVars, envVars, sendVars, turnVars, batchVars, botVars, retentionVars, lockVars, summaryVars, streamVars, treeVars, rateVars, raceVars>>
    \/ (\E t \in Slots : SendMessageReturn(t)) /\ UNCHANGED <<queueVars, dispatchVars, memVars, sweepVars, envVars, sendVars, turnVars, batchVars, botVars, retentionVars, lockVars, summaryVars, streamVars, treeVars, rateVars, raceVars>>
    \/ (\E u \in Users : KillSessionLocked(u)) /\ UNCHANGED <<queueVars, dispatchVars, memVars, sweepVars, envVars, sendVars, turnVars, batchVars, botVars, retentionVars, lockVars, summaryVars, streamVars, treeVars, rateVars, raceVars>>
    \/ (KillSessionFlush) /\ UNCHANGED <<queueVars, dispatchVars, memVars, sweepVars, envVars, sendVars, turnVars, batchVars, botVars, retentionVars, lockVars, summaryVars, streamVars, treeVars, rateVars, raceVars>>
    \/ (KillSessionReturn) /\ UNCHANGED <<queueVars, dispatchVars, memVars, sweepVars, envVars, sendVars, turnVars, batchVars, botVars, retentionVars, lockVars, summaryVars, streamVars, treeVars, rateVars, raceVars>>
    \/ (\E u \in Users : CdGetSession(u, u)) /\ UNCHANGED <<queueVars, dispatchVars, memVars, sweepVars, envVars, sendVars, turnVars, batchVars, botVars, retentionVars, lockVars, summaryVars, streamVars, treeVars, rateVars, raceVars>>
    \/ (CdCreateSession) /\ UNCHANGED <<queueVars, dispatchVars, memVars, sweepVars, envVars, sendVars, turnVars, batchVars, botVars, retentionVars, lockVars, summaryVars, streamVars, treeVars, rateVars, raceVars>>
    \/ (\E d \in WorkDirs : CdSetWorkDir(d)) /\ UNCHANGED <<queueVars, dispatchVars, memVars, sweepVars, envVars, sendVars, turnVars, batchVars, botVars, retentionVars, lockVars, summaryVars, streamVars, treeVars, rateVars, raceVars>>
    \/ (\E r \in BOOLEAN : CleanStale(r)) /\ UNCHANGED <<queueVars, dispatchVars, memVars, sweepVars, envVars, sendVars, turnVars, batchVars, botVars, retentionVars, lockVars, summaryVars, streamVars, treeVars, rateVars, raceVars>>
    \/ (\E id \in flushQueue : FlushAsync(id)) /\ UNCHANGED <<queueVars, dispatchVars, memVars, sweepVars, envVars, sendVars, turnVars, batchVars, botVars, retentionVars, lockVars, summaryVars, streamVars, treeVars, rateVars, raceVars>>
    \/ (Tick) /\ UNCHANGED <<queueVars, dispatchVars, memVars, sweepVars, envVars, sendVars, turnVars, batchVars, botVars, retentionVars, lockVars, summaryVars, streamVars, treeVars, rateVars, raceVars>>
    \/ (Restart) /\ UNCHANGED <<queueVars, dispatchVars, memVars, sweepVars, envVars, sendVars, turnVars, batchVars, botVars, retentionVars, lockVars, summaryVars, streamVars, treeVars, rateVars, raceVars>>

Spec == Init /\ [][Next]_vars

(* lines 415-598: what a SendMessage call that holds a turn goes on to do. *)
(* The context of line 415 ends the subprocess after ten minutes at the    *)
(* latest (exit "silent": killed, nothing on stderr), so the wait of line  *)
(* 560 always returns.                                                     *)
SendMessageContinue(t) ==
    /\ \/ \E k \in PipeFailures : SendMessagePipeFail(t, k)
       \/ SendMessageStart(t)
       \/ \E e \in Exits : SendMessageWait(t, e)
       \/ SendMessageFinish(t)
       \/ SendMessageReturn(t)
    /\ UNCHANGED <<queueVars, dispatchVars, memVars, sweepVars, envVars, sendVars, turnVars, batchVars, botVars, retentionVars, lockVars, summaryVars, streamVars, treeVars, rateVars, raceVars>>

(* every SendMessage call that can take a step eventually takes one *)
DeadlineSpec ==
    Init /\ [][Next]_vars /\ \A t \in Slots : WF_vars(SendMessageContinue(t))

(* ========================= the follow-up queue ======================== *)
QueueFull_OffByOne(q) == Len(q.items) > maxPendingMessages

(* enqueue: the queue has reached the cap *)
QueueFull(q) == Len(q.items) >= maxPendingMessages

Push_Front(q, m) == [isNil |-> FALSE, items |-> <<m>> \o q.items]

(* enqueue: append to session.pending *)
Push(q, m) == [isNil |-> FALSE, items |-> Append(q.items, m)]

LockFree_Always(mu) == TRUE

(* session.pendingMu.Lock() returns only while nobody holds the lock *)
LockFree(mu) == mu = ""

(* buildBatch: the entries of the batch with their k/n labels, in list order *)
buildBatch(msgs) ==
    [i \in 1..Len(msgs) |-> [k |-> i, n |-> Len(msgs), msg |-> msgs[i]]]

(* the queue depths QueueSpec starts from: a fresh session, and a session  *)
(* that has already queued all but two of the messages the cap allows      *)
InitDepths == {0, maxPendingMessages - 2}

Preloaded(d) == [i \in 1..d |-> i]

(* the message of the c-th enqueue call of a behaviour *)
CallMsg(c) == maxPendingMessages + c

(* a session that is busy with a turn, as enqueue finds it *)
QueueInit ==
    /\ disk = {}
    /\ now = 0
    /\ sessions = (QueueUser :> [NewSession("s1", QueueUser, QueueUser)
                                   EXCEPT !.Status = "busy", !.MessageCount = 1])
    /\ procs = ("s1" :> 1)
    /\ nextID = 2
    /\ turn = [t \in Slots |->
                 IF t = 1 THEN [IdleTurn EXCEPT !.pc = "run", !.user = QueueUser,
                                                !.sid = "s1", !.cmd = Command("")]
                 ELSE IdleTurn]
    /\ kill = IdleKill
    /\ cd = IdleCd
    /\ flushQueue = {}
    /\ flushed = {}
    /\ ops = 1
    /\ \E d \in InitDepths :
          /\ pending = IF d = 0 THEN NilQueue
                       ELSE [isNil |-> FALSE, items |-> Preloaded(d)]
          /\ acceptLog = Preloaded(d)
    /\ calls = 0
    /\ pendingMu = ""
    /\ enq = [p \in Producers |-> IdleEnq]
    /\ drn = IdleDrn
    /\ drainLog = <<>>
    /\ built = <<>>
    /\ DispatchIdle
    /\ MemIdle
    /\ SweepIdle
    /\ EnvIdle
    /\ SendIdle
    /\ TurnIdle
    /\ BatchIdle
    /\ BotIdle
    /\ RetentionIdle
    /\ LockIdle
    /\ SummaryIdle
    /\ StreamIdle
    /\ TreeIdle
    /\ RateIdle
    /\ RaceIdle

(* a caller that got still-busy calls enqueue with the next message *)
EnqueueCall(p) ==
    /\ enq[p].pc = "idle"
    /\ calls < MaxEnq
    /\ calls' = calls + 1
    /\ enq' = [enq EXCEPT ![p] = [IdleEnq EXCEPT !.pc = "lock", !.msg = CallMsg(calls')]]
    /\ UNCHANGED <<pending, pendingMu, drn, acceptLog, drainLog, built>>

(* enqueue acquires the queue lock *)
EnqueueLock(p) ==
    /\ enq[p].pc = "lock"
    /\ LockFree(pendingMu)
    /\ pendingMu' = p
    /\ enq' = [enq EXCEPT ![p].pc = "check"]
    /\ UNCHANGED <<pending, drn, calls, acceptLog, drainLog, built>>

(* enqueue compares the queue length with the cap *)
EnqueueCheck(p) ==
    /\ enq[p].pc = "check"
    /\ enq' = IF QueueFull(pending)
              THEN [enq EXCEPT ![p].pc = "unlock", ![p].full = TRUE]
              ELSE [enq EXCEPT ![p].pc = "append"]
    /\ UNCHANGED <<pending, pendingMu, drn, calls, acceptLog, drainLog, built>>

(* enqueue appends and takes the new depth *)
EnqueueAppend(p) ==
    /\ enq[p].pc = "append"
    /\ pending' = Push(pending, enq[p].msg)
    /\ acceptLog' = Append(acceptLog, enq[p].msg)
    /\ enq' = [enq EXCEPT ![p].pc = "unlock", ![p].depth = Len(pending'.items)]
    /\ UNCHANGED <<pendingMu, drn, calls, drainLog, built>>

(* enqueue releases the lock and returns the depth or queue-full *)
EnqueueUnlock(p) ==
    /\ enq[p].pc = "unlock"
    /\ pendingMu' = ""
    /\ enq' = [enq EXCEPT ![p].pc = "ret"]
    /\ UNCHANGED <<pending, drn, calls, acceptLog, drainLog, built>>

(* the caller has the result *)
EnqueueReturn(p) ==
    /\ enq[p].pc = "ret"
    /\ enq' = [enq EXCEPT ![p] = IdleEnq]
    /\ UNCHANGED <<pending, pendingMu, drn, calls, acceptLog, drainLog, built>>

(* drainPending is called *)
DrainCall ==
    /\ drn.pc = "idle"
    /\ drn' = [IdleDrn EXCEPT !.pc = "lock"]
    /\ UNCHANGED <<pending, pendingMu, enq, calls, acceptLog, drainLog, built>>

(* drainPending acquires the queue lock *)
DrainLock ==
    /\ drn.pc = "lock"
    /\ LockFree(pendingMu)
    /\ pendingMu' = Drainer
    /\ drn' = [drn EXCEPT !.pc = "take"]
    /\ UNCHANGED <<pending, enq, calls, acceptLog, drainLog, built>>

(* drainPending takes the old contents ... *)
DrainTake ==
    /\ drn.pc = "take"
    /\ drn' = [drn EXCEPT !.pc = "clear", !.old = pending.items]
    /\ UNCHANGED <<pending, pendingMu, enq, calls, acceptLog, drainLog, built>>

(* ... and leaves a nil queue behind *)
DrainClear ==
    /\ drn.pc = "clear"
    /\ pending' = NilQueue
    /\ drainLog' = drainLog \o drn.old
    /\ drn' = [drn EXCEPT !.pc = "unlock"]
    /\ UNCHANGED <<pendingMu, enq, calls, acceptLog, built>>

(* drainPending releases the lock and returns the old contents *)
DrainUnlock ==
    /\ drn.pc = "unlock"
    /\ pendingMu' = ""
    /\ drn' = [drn EXCEPT !.pc = "ret"]
    /\ UNCHANGED <<pending, enq, calls, acceptLog, drainLog, built>>

(* the caller builds the batch of what the drain returned *)
DrainReturn ==
    /\ drn.pc = "ret"
    /\ built' = buildBatch(drn.old)
    /\ drn' = IdleDrn
    /\ UNCHANGED <<pending, pendingMu, enq, calls, acceptLog, drainLog>>

coreVars == <<sessions, disk, procs, nextID, now, turn, kill, cd,
              flushQueue, flushed, ops>>

QueueNext ==
    \/ (\E p \in Producers : EnqueueCall(p)) /\ UNCHANGED <<coreVars, dispatchVars, memVars, sweepVars, envVars, sendVars, turnVars, batchVars, botVars, retentionVars, lockVars, summaryVars, streamVars, treeVars, rateVars, raceVars>>
    \/ (\E p \in Producers : EnqueueLock(p)) /\ UNCHANGED <<coreVars, dispatchVars, memVars, sweepVars, envVars, sendVars, turnVars, batchVars, botVars, retentionVars, lockVars, summaryVars, streamVars, treeVars, rateVars, raceVars>>
    \/ (\E p \in Producers : EnqueueCheck(p)) /\ UNCHANGED <<coreVars, dispatchVars, memVars, sweepVars, envVars, sendVars, turnVars, batchVars, botVars, retentionVars, lockVars, summaryVars, streamVars, treeVars, rateVars, raceVars>>
    \/ (\E p \in Producers : EnqueueAppend(p)) /\ UNCHANGED <<coreVars, dispatchVars, memVars, sweepVars, envVars, sendVars, turnVars, batchVars, botVars, retentionVars, lockVars, summaryVars, streamVars, treeVars, rateVars, raceVars>>
    \/ (\E p \in Producers : EnqueueUnlock(p)) /\ UNCHANGED <<coreVars, dispatchVars, memVars, sweepVars, envVars, sendVars, turnVars, batchVars, botVars, retentionVars, lockVars, summaryVars, streamVars, treeVars, rateVars, raceVars>>
    \/ (\E p \in Producers : EnqueueReturn(p)) /\ UNCHANGED <<coreVars, dispatchVars, memVars, sweepVars, envVars, sendVars, turnVars, batchVars, botVars, retentionVars, lockVars, summaryVars, streamVars, treeVars, rateVars, raceVars>>
    \/ DrainCall /\ UNCHANGED <<coreVars, dispatchVars, memVars, sweepVars, envVars, sendVars, turnVars, batchVars, botVars, retentionVars, lockVars, summaryVars, streamVars, treeVars, rateVars, raceVars>>
    \/ DrainLock /\ UNCHANGED <<coreVars, dispatchVars, memVars, sweepVars, envVars, sendVars, turnVars, batchVars, botVars, retentionVars, lockVars, summaryVars, streamVars, treeVars, rateVars, raceVars>>
    \/ DrainTake /\ UNCHANGED <<coreVars, dispatchVars, memVars, sweepVars, envVars, sendVars, turnVars, batchVars, botVars, retentionVars, lockVars, summaryVars, streamVars, treeVars, rateVars, raceVars>>
    \/ DrainClear /\ UNCHANGED <<coreVars, dispatchVars, memVars, sweepVars, envVars, sendVars, turnVars, batchVars, botVars, retentionVars, lockVars, summaryVars, streamVars, treeVars, rateVars, raceVars>>
    \/ DrainUnlock /\ UNCHANGED <<coreVars, dispatchVars, memVars, sweepVars, envVars, sendVars, turnVars, batchVars, botVars, retentionVars, lockVars, summaryVars, streamVars, treeVars, rateVars, raceVars>>
    \/ DrainReturn /\ UNCHANGED <<coreVars, dispatchVars, memVars, sweepVars, envVars, sendVars, turnVars, batchVars, botVars, retentionVars, lockVars, summaryVars, streamVars, treeVars, rateVars, raceVars>>

QueueSpec == QueueInit /\ [][QueueNext]_vars

(* ==================== the calling layer and the queue ================= *)
(* the handler whose turn keeps the session of QueueUser busy, if any *)
CurrentTurn == {t \in Slots : turn[t].pc \in {"spawn", "run"} /\ turn[t].user = QueueUser}

(* queued messages stop waiting for the turn of handler t *)
Settle(t) == Restrict(behind, {m \in DOMAIN behind : behind[m] # t})

WaitingFor(t) == {m \in DOMAIN behind : behind[m] = t}

(* a message of QueueUser arrives and its handler calls the Runner *)
DispatchMessage(t) ==
    /\ SendMessageEnter(t, QueueUser)
    /\ payload' = [payload EXCEPT ![t] = <<ops'>>]
    /\ UNCHANGED <<queueVars, behind, owed, fed, summaryVars, streamVars, treeVars, rateVars, raceVars>>
    /\ UNCHANGED <<memVars, sweepVars, envVars, sendVars, turnVars, batchVars, botVars, retentionVars, lockVars, summaryVars, streamVars, treeVars, rateVars, raceVars>>

(* the turn of handler t goes on: SendMessage up to its return value *)
DispatchTurn(t) ==
    /\ \/ \E k \in PipeFailures : SendMessagePipeFail(t, k)
       \/ SendMessageStart(t)
       \/ \E c \in ConvIDs : SendMessageEvent(t, c)
       \/ \E e \in Exits : SendMessageWait(t, e)
       \/ SendMessageFinish(t)
    /\ UNCHANGED <<queueVars, dispatchVars, memVars, sweepVars, envVars, sendVars, turnVars, batchVars, botVars, retentionVars, lockVars, summaryVars, streamVars, treeVars, rateVars, raceVars>>

(* still-busy: the handler routes what it carries into the queue (enqueue, *)
(* under the queue lock); queue-full is reported to the user               *)
DispatchEnqueue(t) ==
    /\ turn[t].pc = "ret"
    /\ turn[t].res = "still-busy"
    /\ IF QueueFull(pending)
       THEN UNCHANGED <<pending, behind>>
       ELSE /\ pending' = [isNil |-> FALSE, items |-> pending.items \o payload[t]]
            /\ behind' = IF StillBusy(sessions, QueueUser) /\ CurrentTurn # {}
                         THEN [m \in DOMAIN behind \cup Range(payload[t]) |->
                                 IF m \in Range(payload[t])
                                 THEN CHOOSE c \in CurrentTurn : TRUE
                                 ELSE behind[m]]
                         ELSE behind
    /\ turn' = [turn EXCEPT ![t] = IdleTurn]
    /\ payload' = [payload EXCEPT ![t] = <<>>]
    /\ UNCHANGED <<sessions, disk, procs, nextID, now, kill, cd, flushQueue,
                   flushed, ops, pendingMu, enq, drn, calls, acceptLog, drainLog,
                   built, owed, fed>>
    /\ UNCHANGED <<memVars, sweepVars, envVars, sendVars, turnVars, batchVars, botVars, retentionVars, lockVars, summaryVars, streamVars, treeVars, rateVars, raceVars>>

(* the Runner returned successfully: the handler delivers the answer,      *)
(* checks the queue and, if it is not empty, drains it (drainPending)      *)
DispatchDrain(t) ==
    /\ turn[t].pc = "ret"
    /\ turn[t].res = "ok"
    /\ owed' = owed \cup WaitingFor(t)
    /\ behind' = Settle(t)
    /\ IF pending.items = <<>>
       THEN /\ turn' = [turn EXCEPT ![t] = IdleTurn]
            /\ payload' = [payload EXCEPT ![t] = <<>>]
            /\ UNCHANGED pending
       ELSE /\ turn' = [turn EXCEPT ![t].pc = "feed"]
            /\ payload' = [payload EXCEPT ![t] = pending.items]
            /\ pending' = NilQueue
    /\ UNCHANGED <<sessions, disk, procs, nextID, now, kill, cd, flushQueue,
                   flushed, ops, pendingMu, enq, drn, calls, acceptLog, drainLog,
                   built, fed>>
    /\ UNCHANGED <<memVars, sweepVars, envVars, sendVars, turnVars, batchVars, botVars, retentionVars, lockVars, summaryVars, streamVars, treeVars, rateVars, raceVars>>

(* the handler feeds the batch back into the Runner as a new turn *)
DispatchFeed(t) ==
    /\ turn[t].pc = "feed"
    /\ SendMessageLocked(t, QueueUser)
    /\ fed' = IF turn'[t].pc = "spawn" THEN fed \cup Range(payload[t]) ELSE fed
    /\ UNCHANGED <<ops, queueVars, payload, behind, owed, summaryVars, streamVars, treeVars, rateVars, raceVars>>
    /\ UNCHANGED <<memVars, sweepVars, envVars, sendVars, turnVars, batchVars, botVars, retentionVars, lockVars, summaryVars, streamVars, treeVars, rateVars, raceVars>>

(* the Runner returned an error other than still-busy: it is reported *)
DispatchFail(t) ==
    /\ turn[t].pc = "ret"
    /\ turn[t].res \notin {"ok", "still-busy"}
    /\ behind' = Settle(t)
    /\ turn' = [turn EXCEPT ![t] = IdleTurn]
    /\ payload' = [payload EXCEPT ![t] = <<>>]
    /\ UNCHANGED <<sessions, disk, procs, nextID, now, kill, cd, flushQueue,
                   flushed, ops, queueVars, owed, fed>>
    /\ UNCHANGED <<memVars, sweepVars, envVars, sendVars, turnVars, batchVars, botVars, retentionVars, lockVars, summaryVars, streamVars, treeVars, rateVars, raceVars>>

(* what a handler that has begun goes on to do *)
DispatchContinue(t) ==
    \/ DispatchTurn(t)
    \/ DispatchEnqueue(t)
    \/ DispatchDrain(t)
    \/ DispatchFeed(t)
    \/ DispatchFail(t)

DispatchNext ==
    \/ \E t \in Slots : DispatchMessage(t)
    \/ \E t \in Slots : DispatchTurn(t)
    \/ \E t \in Slots : DispatchEnqueue(t)
    \/ \E t \in Slots : DispatchDrain(t)
    \/ \E t \in Slots : DispatchFeed(t)
    \/ \E t \in Slots : DispatchFail(t)

(* every handler goroutine that can take a step eventually takes one *)
DispatchSpec ==
    Init /\ [][DispatchNext]_vars /\ \A t \in Slots : WF_vars(DispatchContinue(t))

(* ========================= the memory manager ========================= *)
(* config memory.enabled of the modelled run (the default) *)
MemoryEnabled == TRUE

(* the text of a message: empty for a photo or document without caption *)
Texts == {"", "hi"}

memCore == <<convLog, summaries, flushCalls>>

(* MemoryManager.LogTurn: a turn with empty text is not logged *)
LogTurn(log, sid, role, txt) ==
    IF ~MemoryEnabled \/ txt = "" THEN log
    ELSE Put(log, sid, Append(IF sid \in DOMAIN log THEN log[sid] ELSE <<>>, role))

(* MemoryManager.FlushSession: without a conversation log nothing is       *)
(* written; otherwise the summary, or the raw fallback, is written         *)
FlushSession(sums, log, sid) ==
    IF MemoryEnabled /\ sid \in DOMAIN log /\ log[sid] # <<>>
    THEN sums \cup {sid} ELSE sums

FlushAllNeedsFlush_Always(msgCount) == TRUE

(* FlushAll, line 213 *)
FlushAllNeedsFlush(msgCount) == msgCount > 0

(* the daemon starts with no snapshot, or with the snapshot of a session   *)
(* that /cd has created and that has not seen a message yet                *)
MemoryInit ==
    /\ now = 0
    /\ \E fresh \in BOOLEAN :
          /\ disk = IF fresh THEN {}
                    ELSE saveToDisk(QueueUser :> NewSession("s1", QueueUser, QueueUser))
          /\ nextID = IF fresh THEN 1 ELSE 2
    /\ sessions \in loadFromDisk(disk)
    /\ procs = EmptyMap
    /\ turn = [t \in Slots |-> IdleTurn]
    /\ kill = IdleKill
    /\ cd = IdleCd
    /\ flushQueue = {}
    /\ flushed = {}
    /\ ops = 0
    /\ QueueIdle
    /\ DispatchIdle
    /\ MemIdle
    /\ SweepIdle
    /\ EnvIdle
    /\ SendIdle
    /\ TurnIdle
    /\ BatchIdle
    /\ BotIdle
    /\ RetentionIdle
    /\ LockIdle
    /\ SummaryIdle
    /\ StreamIdle
    /\ TreeIdle
    /\ RateIdle
    /\ RaceIdle

(* Bot.handleMessage calls SendMessage with the text of the update *)
MemMessage(t, txt) ==
    /\ shut.pc = "idle"
    /\ SendMessageEnter(t, QueueUser)
    /\ text' = [text EXCEPT ![t] = txt]
    /\ logged' = [logged EXCEPT ![t] = FALSE]
    /\ UNCHANGED <<memCore, shut>>

(* session.go line 413: the user's turn is logged *)
MemLogUser(t) ==
    /\ turn[t].pc = "spawn"
    /\ ~logged[t]
    /\ convLog' = LogTurn(convLog, turn[t].sid, "user", text[t])
    /\ logged' = [logged EXCEPT ![t] = TRUE]
    /\ UNCHANGED <<coreVars, summaries, flushCalls, text, shut>>

MemPipeFail(t, kind) ==
    /\ logged[t]
    /\ SendMessagePipeFail(t, kind)
    /\ UNCHANGED <<memVars, sweepVars, envVars, sendVars, turnVars, batchVars, botVars, retentionVars, lockVars, summaryVars, streamVars, treeVars, rateVars, raceVars>>

MemStart(t) ==
    /\ logged[t]
    /\ SendMessageStart(t)
    /\ UNCHANGED <<memVars, sweepVars, envVars, sendVars, turnVars, batchVars, botVars, retentionVars, lockVars, summaryVars, streamVars, treeVars, rateVars, raceVars>>

MemEvent(t, sid) == SendMessageEvent(t, sid) /\ UNCHANGED <<memVars, sweepVars, envVars, sendVars, turnVars, batchVars, botVars, retentionVars, lockVars, summaryVars, streamVars, treeVars, rateVars, raceVars>>

MemWait(t, exit) == SendMessageWait(t, exit) /\ UNCHANGED <<memVars, sweepVars, envVars, sendVars, turnVars, batchVars, botVars, retentionVars, lockVars, summaryVars, streamVars, treeVars, rateVars, raceVars>>

(* session.go lines 573-598: the assistant's turn is logged on success *)
MemFinish(t, resp) ==
    /\ SendMessageFinish(t)
    /\ convLog' = IF turn'[t].res = "ok"
                  THEN LogTurn(convLog, turn[t].sid, "assistant", resp)
                  ELSE convLog
    /\ UNCHANGED <<summaries, flushCalls, text, logged, shut>>

MemReturn(t) == SendMessageReturn(t) /\ UNCHANGED <<memVars, sweepVars, envVars, sendVars, turnVars, batchVars, botVars, retentionVars, lockVars, summaryVars, streamVars, treeVars, rateVars, raceVars>>

MemKillLocked ==
    /\ shut.pc = "idle"
    /\ KillSessionLocked(QueueUser)
    /\ UNCHANGED <<memVars, sweepVars, envVars, sendVars, turnVars, batchVars, botVars, retentionVars, lockVars, summaryVars, streamVars, treeVars, rateVars, raceVars>>

(* session.go lines 182-185 with the FlushSession it calls *)
MemKillFlush ==
    /\ KillSessionFlush
    /\ IF KillNeedsFlush(kill.count)
       THEN /\ summaries' = FlushSession(summaries, convLog, kill.sid)
            /\ flushCalls' = flushCalls \cup {[sid |-> kill.sid, count |-> kill.count]}
       ELSE UNCHANGED <<summaries, flushCalls>>
    /\ UNCHANGED <<convLog, text, logged, shut>>

MemKillReturn == KillSessionReturn /\ UNCHANGED <<memVars, sweepVars, envVars, sendVars, turnVars, batchVars, botVars, retentionVars, lockVars, summaryVars, streamVars, treeVars, rateVars, raceVars>>

(* CleanStale with the FlushSession calls it schedules *)
MemCleanStale(dailyResetActive) ==
    /\ CleanStale(dailyResetActive)
    /\ flushCalls' = flushCalls \cup
          {[sid |-> sessions[u].ID, count |-> sessions[u].MessageCount] :
              u \in {v \in StaleUsers(sessions, TimeoutMinutes, dailyResetActive) :
                        sessions[v].ID \in flushQueue'}}
    /\ UNCHANGED <<convLog, summaries, text, logged, shut>>

MemFlushAsync(id) ==
    /\ FlushAsync(id)
    /\ summaries' = FlushSession(summaries, convLog, id)
    /\ UNCHANGED <<convLog, flushCalls, text, logged, shut>>

MemTick == Tick /\ UNCHANGED <<memVars, sweepVars, envVars, sendVars, turnVars, batchVars, botVars, retentionVars, lockVars, summaryVars, streamVars, treeVars, rateVars, raceVars>>

(* main.go lines 96-100: a signal arrives, the bot stops polling and       *)
(* FlushAll collects the sessions to flush under the read lock             *)
ShutdownCollect ==
    /\ shut.pc = "idle"
    /\ Op
    /\ LET users == {u \in DOMAIN sessions : FlushAllNeedsFlush(sessions[u].MessageCount)}
       IN  /\ shut' = [pc |-> "flush", toFlush |-> {sessions[u].ID : u \in users}]
           /\ flushCalls' = flushCalls \cup
                 {[sid |-> sessions[u].ID, count |-> sessions[u].MessageCount] : u \in users}
    /\ UNCHANGED <<sessions, disk, procs, nextID, now, turn, kill, cd, flushQueue,
                   flushed, convLog, summaries, text, logged>>

(* FlushAll, lines 226-229: one FlushSession after the other *)
ShutdownFlush(id) ==
    /\ shut.pc = "flush"
    /\ id \in shut.toFlush
    /\ summaries' = FlushSession(summaries, convLog, id)
    /\ flushed' = flushed \cup {id}
    /\ shut' = [shut EXCEPT !.toFlush = @ \ {id}]
    /\ UNCHANGED <<sessions, disk, procs, nextID, now, turn, kill, cd, flushQueue,
                   ops, convLog, flushCalls, text, logged>>

(* main.go line 101: os.Exit; the daemon is started again *)
ShutdownExit ==
    /\ shut.pc = "flush"
    /\ shut.toFlush = {}
    /\ Reload
    /\ shut' = IdleShut
    /\ text' = [t \in Slots |-> ""]
    /\ logged' = [t \in Slots |-> FALSE]
    /\ UNCHANGED <<ops, memCore>>

MemoryNext ==
    \/ (\E t \in Slots, x \in Texts : MemMessage(t, x)) /\ UNCHANGED <<queueVars, dispatchVars, sweepVars, envVars, sendVars, turnVars, batchVars, botVars, retentionVars, lockVars, summaryVars, streamVars, treeVars, rateVars, raceVars>>
    \/ (\E t \in Slots : MemLogUser(t)) /\ UNCHANGED <<queueVars, dispatchVars, sweepVars, envVars, sendVars, turnVars, batchVars, botVars, retentionVars, lockVars, summaryVars, streamVars, treeVars, rateVars, raceVars>>
    \/ (\E t \in Slots, k \in PipeFailures : MemPipeFail(t, k)) /\ UNCHANGED <<queueVars, dispatchVars, sweepVars, envVars, sendVars, turnVars, batchVars, botVars, retentionVars, lockVars, summaryVars, streamVars, treeVars, rateVars, raceVars>>
    \/ (\E t \in Slots : MemStart(t)) /\ UNCHANGED <<queueVars, dispatchVars, sweepVars, envVars, sendVars, turnVars, batchVars, botVars, retentionVars, lockVars, summaryVars, streamVars, treeVars, rateVars, raceVars>>
    \/ (\E t \in Slots, c \in ConvIDs : MemEvent(t, c)) /\ UNCHANGED <<queueVars, dispatchVars, sweepVars, envVars, sendVars, turnVars, batchVars, botVars, retentionVars, lockVars, summaryVars, streamVars, treeVars, rateVars, raceVars>>
    \/ (\E t \in Slots, e \in Exits : MemWait(t, e)) /\ UNCHANGED <<queueVars, dispatchVars, sweepVars, envVars, sendVars, turnVars, batchVars, botVars, retentionVars, lockVars, summaryVars, streamVars, treeVars, rateVars, raceVars>>
    \/ (\E t \in Slots, x \in Texts : MemFinish(t, x)) /\ UNCHANGED <<queueVars, dispatchVars, sweepVars, envVars, sendVars, turnVars, batchVars, botVars, retentionVars, lockVars, summaryVars, streamVars, treeVars, rateVars, raceVars>>
    \/ (\E t \in Slots : MemReturn(t)) /\ UNCHANGED <<queueVars, dispatchVars, sweepVars, envVars, sendVars, turnVars, batchVars, botVars, retentionVars, lockVars, summaryVars, streamVars, treeVars, rateVars, raceVars>>
    \/ MemKillLocked /\ UNCHANGED <<queueVars, dispatchVars, sweepVars, envVars, sendVars, turnVars, batchVars, botVars, retentionVars, lockVars, summaryVars, streamVars, treeVars, rateVars, raceVars>>
    \/ MemKillFlush /\ UNCHANGED <<queueVars, dispatchVars, sweepVars, envVars, sendVars, turnVars, batchVars, botVars, retentionVars, lockVars, summaryVars, streamVars, treeVars, rateVars, raceVars>>
    \/ MemKillReturn /\ UNCHANGED <<queueVars, dispatchVars, sweepVars, envVars, sendVars, turnVars, batchVars, botVars, retentionVars, lockVars, summaryVars, streamVars, treeVars, rateVars, raceVars>>
    \/ (\E r \in BOOLEAN : MemCleanStale(r)) /\ UNCHANGED <<queueVars, dispatchVars, sweepVars, envVars, sendVars, turnVars, batchVars, botVars, retentionVars, lockVars, summaryVars, streamVars, treeVars, rateVars, raceVars>>
    \/ (\E id \in flushQueue : MemFlushAsync(id)) /\ UNCHANGED <<queueVars, dispatchVars, sweepVars, envVars, sendVars, turnVars, batchVars, botVars, retentionVars, lockVars, summaryVars, streamVars, treeVars, rateVars, raceVars>>
    \/ MemTick /\ UNCHANGED <<queueVars, dispatchVars, sweepVars, envVars, sendVars, turnVars, batchVars, botVars, retentionVars, lockVars, summaryVars, streamVars, treeVars, rateVars, raceVars>>
    \/ ShutdownCollect /\ UNCHANGED <<queueVars, dispatchVars, sweepVars, envVars, sendVars, turnVars, batchVars, botVars, retentionVars, lockVars, summaryVars, streamVars, treeVars, rateVars, raceVars>>
    \/ (\E id \in shut.toFlush : ShutdownFlush(id)) /\ UNCHANGED <<queueVars, dispatchVars, sweepVars, envVars, sendVars, turnVars, batchVars, botVars, retentionVars, lockVars, summaryVars, streamVars, treeVars, rateVars, raceVars>>
    \/ ShutdownExit /\ UNCHANGED <<queueVars, dispatchVars, sweepVars, envVars, sendVars, turnVars, batchVars, botVars, retentionVars, lockVars, summaryVars, streamVars, treeVars, rateVars, raceVars>>

MemorySpec == MemoryInit /\ [][MemoryNext]_vars

(* ============================ the sweeper ============================= *)
(* CleanStale under the configurations that make the daily reset matter:   *)
(* a timeout above five minutes, a reset hour, and a clock that reaches it. *)
SweepMaxNow == 8

SweepMaxTurns == 1

(* timeout_minutes, reset_hour and the minute of the day at which the run  *)
(* starts (03:57 or 23:57): a timeout above and below the five minutes of  *)
(* the daily reset, with the reset hour 4, 0 or none (-1)                  *)
SweepConfigs ==
    {[timeoutMinutes |-> 7, resetHour |-> 4,  origin |-> 237],
     [timeoutMinutes |-> 7, resetHour |-> -1, origin |-> 237],
     [timeoutMinutes |-> 2, resetHour |-> 4,  origin |-> 237],
     [timeoutMinutes |-> 7, resetHour |-> 0,  origin |-> 1437]}

(* the handler slot whose turns this specification follows *)
SweepSlot == {CHOOSE t \in Slots : \A o \in Slots : t <= o}

(* time.Now().In(sm.resetLocation).Hour() *)
CurrentHour == ((cfg.origin + now) \div 60) % 24

(* a session as CreateSession made it at time 0, or with one turn done *)
SweepSessions(u) ==
    {[NewSession(id, u, u) EXCEPT !.MessageCount = c] :
        id \in {IF u = QueueUser THEN "s1" ELSE "s2"}, c \in {0, 1}}

SweepInit ==
    /\ now = 0
    /\ \E us \in SUBSET Users :
          sessions \in {f \in [us -> UNION {SweepSessions(u) : u \in us}] :
                           \A u \in us : f[u] \in SweepSessions(u)}
    /\ disk = saveToDisk(sessions)
    /\ procs = EmptyMap
    /\ nextID = 3
    /\ turn = [t \in Slots |-> IdleTurn]
    /\ kill = IdleKill
    /\ cd = IdleCd
    /\ flushQueue = {}
    /\ flushed = {}
    /\ ops = 0
    /\ cfg \in SweepConfigs
    /\ sweep = IdleSweep
    /\ QueueIdle
    /\ DispatchIdle
    /\ MemIdle
    /\ EnvIdle
    /\ SendIdle
    /\ TurnIdle
    /\ BatchIdle
    /\ BotIdle
    /\ RetentionIdle
    /\ LockIdle
    /\ SummaryIdle
    /\ StreamIdle
    /\ TreeIdle
    /\ RateIdle
    /\ RaceIdle

(* the ticker (main.go lines 83-90) calls CleanStale *)
SweepCleanStale ==
    LET stale == StaleUsers(sessions, cfg.timeoutMinutes,
                            DailyResetActive(cfg.resetHour, CurrentHour))
    IN  /\ sweep.pc = "idle"
        /\ Sweep(stale)
        /\ sweep' = [pc |-> "ret", cleaned |-> Cardinality(stale),
                     before |-> sessions, at |-> now]
        /\ UNCHANGED <<ops, cfg>>

(* CleanStale has returned cleaned; bot.cleanRateMap, next tick *)
SweepReturn ==
    /\ sweep.pc = "ret"
    /\ sweep' = IdleSweep
    /\ UNCHANGED <<coreVars, cfg>>

SweepTick ==
    /\ now < SweepMaxNow
    /\ now' = now + 1
    /\ UNCHANGED <<sessions, disk, procs, nextID, turn, kill, cd, flushQueue,
                   flushed, ops, sweepVars>>

(* the users who write while the sweeper runs *)
SweepSenders == Users \ {QueueUser}

(* a message arrives while the sweeper runs *)
SweepMessage(t, u) == ops < SweepMaxTurns /\ SendMessageEnter(t, u)

SweepNext ==
    \/ SweepCleanStale /\ UNCHANGED <<queueVars, dispatchVars, memVars, envVars, sendVars, turnVars, batchVars, botVars, retentionVars, lockVars, summaryVars, streamVars, treeVars, rateVars, raceVars>>
    \/ SweepReturn /\ UNCHANGED <<queueVars, dispatchVars, memVars, envVars, sendVars, turnVars, batchVars, botVars, retentionVars, lockVars, summaryVars, streamVars, treeVars, rateVars, raceVars>>
    \/ SweepTick /\ UNCHANGED <<queueVars, dispatchVars, memVars, envVars, sendVars, turnVars, batchVars, botVars, retentionVars, lockVars, summaryVars, streamVars, treeVars, rateVars, raceVars>>
    \/ (\E t \in SweepSlot, u \in SweepSenders : SweepMessage(t, u)) /\ UNCHANGED <<queueVars, dispatchVars, memVars, sweepVars, envVars, sendVars, turnVars, batchVars, botVars, retentionVars, lockVars, summaryVars, streamVars, treeVars, rateVars, raceVars>>
    \/ (\E t \in SweepSlot : SendMessageStart(t)) /\ UNCHANGED <<queueVars, dispatchVars, memVars, sweepVars, envVars, sendVars, turnVars, batchVars, botVars, retentionVars, lockVars, summaryVars, streamVars, treeVars, rateVars, raceVars>>
    \/ (\E t \in SweepSlot, e \in Exits : SendMessageWait(t, e)) /\ UNCHANGED <<queueVars, dispatchVars, memVars, sweepVars, envVars, sendVars, turnVars, batchVars, botVars, retentionVars, lockVars, summaryVars, streamVars, treeVars, rateVars, raceVars>>
    \/ (\E t \in SweepSlot : SendMessageFinish(t)) /\ UNCHANGED <<queueVars, dispatchVars, memVars, sweepVars, envVars, sendVars, turnVars, batchVars, botVars, retentionVars, lockVars, summaryVars, streamVars, treeVars, rateVars, raceVars>>
    \/ (\E t \in SweepSlot : SendMessageReturn(t)) /\ UNCHANGED <<queueVars, dispatchVars, memVars, sweepVars, envVars, sendVars, turnVars, batchVars, botVars, retentionVars, lockVars, summaryVars, streamVars, treeVars, rateVars, raceVars>>

SweepSpec == SweepInit /\ [][SweepNext]_vars

(* ====================== the outcomes of a turn ======================== *)
(* SendMessage against a registry that may hold a session with a           *)
(* conversation behind it, so that first turns and resumed turns both      *)
(* happen, with /clear beside them.                                        *)
ResumedSession ==
    [NewSession("s1", QueueUser, QueueUser) EXCEPT !.MessageCount = 1,
                                                   !.ClaudeSessionID = "c1"]

TurnInit ==
    /\ now = 0
    /\ \E fresh \in BOOLEAN :
          /\ sessions = IF fresh THEN EmptyMap ELSE QueueUser :> ResumedSession
          /\ nextID = IF fresh THEN 1 ELSE 2
    /\ disk = saveToDisk(sessions)
    /\ procs = EmptyMap
    /\ turn = [t \in Slots |-> IdleTurn]
    /\ kill = IdleKill
    /\ cd = IdleCd
    /\ flushQueue = {}
    /\ flushed = {}
    /\ ops = 0
    /\ QueueIdle
    /\ DispatchIdle
    /\ MemIdle
    /\ SweepIdle
    /\ EnvIdle
    /\ SendIdle
    /\ TurnIdle
    /\ BatchIdle
    /\ BotIdle
    /\ RetentionIdle
    /\ LockIdle
    /\ SummaryIdle
    /\ StreamIdle
    /\ TreeIdle
    /\ RateIdle
    /\ RaceIdle

(* the user whose turns and /clear this specification follows *)
TurnUsers == {QueueUser}

(* SendMessage is called: what sm.sessions[userID] held at that moment *)
TurnMessage(t, u) ==
    /\ SendMessageEnter(t, u)
    /\ prior' = [prior EXCEPT ![t] = IF u \in DOMAIN sessions THEN sessions[u]
                                     ELSE NoSession]

TurnReturn(t) ==
    /\ SendMessageReturn(t)
    /\ prior' = [prior EXCEPT ![t] = NoSession]

(* the session_id values the system records of the subprocesses carry *)
TurnConvIDs == {"c1", "c2"}

TurnNext ==
    \/ (\E t \in Slots, u \in TurnUsers : TurnMessage(t, u)) /\ UNCHANGED <<queueVars, dispatchVars, memVars, sweepVars, envVars, sendVars, batchVars, botVars, retentionVars, lockVars, summaryVars, streamVars, treeVars, rateVars, raceVars>>
    \/ (\E t \in Slots, k \in PipeFailures : SendMessagePipeFail(t, k)) /\ UNCHANGED <<queueVars, dispatchVars, memVars, sweepVars, envVars, sendVars, turnVars, batchVars, botVars, retentionVars, lockVars, summaryVars, streamVars, treeVars, rateVars, raceVars>>
    \/ (\E t \in Slots : SendMessageStart(t)) /\ UNCHANGED <<queueVars, dispatchVars, memVars, sweepVars, envVars, sendVars, turnVars, batchVars, botVars, retentionVars, lockVars, summaryVars, streamVars, treeVars, rateVars, raceVars>>
    \/ (\E t \in Slots, c \in TurnConvIDs : SendMessageEvent(t, c)) /\ UNCHANGED <<queueVars, dispatchVars, memVars, sweepVars, envVars, sendVars, turnVars, batchVars, botVars, retentionVars, lockVars, summaryVars, streamVars, treeVars, rateVars, raceVars>>
    \/ (\E t \in Slots, e \in Exits : SendMessageWait(t, e)) /\ UNCHANGED <<queueVars, dispatchVars, memVars, sweepVars, envVars, sendVars, turnVars, batchVars, botVars, retentionVars, lockVars, summaryVars, streamVars, treeVars, rateVars, raceVars>>
    \/ (\E t \in Slots : SendMessageFinish(t)) /\ UNCHANGED <<queueVars, dispatchVars, memVars, sweepVars, envVars, sendVars, turnVars, batchVars, botVars, retentionVars, lockVars, summaryVars, streamVars, treeVars, rateVars, raceVars>>
    \/ (\E t \in Slots : TurnReturn(t)) /\ UNCHANGED <<queueVars, dispatchVars, memVars, sweepVars, envVars, sendVars, batchVars, botVars, retentionVars, lockVars, summaryVars, streamVars, treeVars, rateVars, raceVars>>
    \/ (\E u \in TurnUsers : KillSessionLocked(u)) /\ UNCHANGED <<queueVars, dispatchVars, memVars, sweepVars, envVars, sendVars, turnVars, batchVars, botVars, retentionVars, lockVars, summaryVars, streamVars, treeVars, rateVars, raceVars>>
    \/ KillSessionFlush /\ UNCHANGED <<queueVars, dispatchVars, memVars, sweepVars, envVars, sendVars, turnVars, batchVars, botVars, retentionVars, lockVars, summaryVars, streamVars, treeVars, rateVars, raceVars>>
    \/ KillSessionReturn /\ UNCHANGED <<queueVars, dispatchVars, memVars, sweepVars, envVars, sendVars, turnVars, batchVars, botVars, retentionVars, lockVars, summaryVars, streamVars, treeVars, rateVars, raceVars>>

TurnSpec == TurnInit /\ [][TurnNext]_vars

(* ================= the environment of the subprocesses ================ *)
(* Strings are sequences of characters, so that a prefix is a prefix.      *)
HasPrefix(e, prefix) ==
    Len(prefix) <= Len(e) /\ SubSeq(e, 1, Len(prefix)) = prefix

(* session.go lines 686-705: PATH=, LANG=, LC_, TERM=, SHELL=, USER=,      *)
(* LOGNAME=, XDG_, PAI_DIR=, CLAUDE_PATH=, CLAUDE_USER_HOME=,              *)
(* CLAUDE_RUN_AS_USER=, CLAUDE_CODE_OAUTH_TOKEN=,                          *)
(* CLAUDE_CODE_EXPERIMENTAL_, GH_TOKEN=, DO_TOKEN=, GOOGLE_API_KEY=,       *)
(* GOOGLE_APPLICATION_CREDENTIALS=                                         *)
claudeEnvAllowlist ==
    <<
       <<"P", "A", "T", "H", "=">>,
       <<"L", "A", "N", "G", "=">>,
       <<"L", "C", "_">>,
       <<"T", "E", "R", "M", "=">>,
       <<"S", "H", "E", "L", "L", "=">>,
       <<"U", "S", "E", "R", "=">>,
       <<"L", "O", "G", "N", "A", "M", "E", "=">>,
       <<"X", "D", "G", "_">>,
       <<"P", "A", "I", "_", "D", "I", "R", "=">>,
       <<"C", "L", "A", "U", "D", "E", "_", "P", "A", "T", "H", "=">>,
       <<"C", "L", "A", "U", "D", "E", "_", "U", "S", "E", "R", "_", "H", "O", "M", "E", "=">>,
       <<"C", "L", "A", "U", "D", "E", "_", "R", "U", "N", "_", "A", "S", "_", "U", "S", "E", "R", "=">>,
       <<"C", "L", "A", "U", "D", "E", "_", "C", "O", "D", "E", "_", "O", "A", "U", "T", "H", "_", "T", "O", "K", "E", "N", "=">>,
       <<"C", "L", "A", "U", "D", "E", "_", "C", "O", "D", "E", "_", "E", "X", "P", "E", "R", "I", "M", "E", "N", "T", "A", "L", "_">>,
       <<"G", "H", "_", "T", "O", "K", "E", "N", "=">>,
       <<"D", "O", "_", "T", "O", "K", "E", "N", "=">>,
       <<"G", "O", "O", "G", "L", "E", "_", "A", "P", "I", "_", "K", "E", "Y", "=">>,
       <<"G", "O", "O", "G", "L", "E", "_", "A", "P", "P", "L", "I", "C", "A", "T", "I", "O", "N", "_", "C", "R", "E", "D", "E", "N", "T", "I", "A", "L", "S", "=">>
    >>

Allowlisted(e) ==
    \E i \in DOMAIN claudeEnvAllowlist : HasPrefix(e, claudeEnvAllowlist[i])

HomeName == <<"H", "O", "M", "E">>

ClaudeUserHomeName == <<"C", "L", "A", "U", "D", "E", "_", "U", "S", "E", "R", "_", "H", "O", "M", "E">>

DefaultClaudeHome == <<"/", "h", "o", "m", "e", "/", "p", "a", "i">>

(* os.Getenv: the value of the variable, empty if it is not set *)
Getenv(env, name) ==
    LET key == name \o <<"=">>
        hit == {i \in DOMAIN env : HasPrefix(env[i], key)}
    IN  IF hit = {} THEN <<>>
        ELSE LET i == CHOOSE j \in hit : \A k \in hit : j <= k
             IN  SubSeq(env[i], Len(key) + 1, Len(env[i]))

(* session.go lines 710-735 *)
buildClaudeEnv(env, asUnprivilegedUser) ==
    LET filtered   == SelectSeq(env, Allowlisted)
        claudeHome == Getenv(env, ClaudeUserHomeName)
        home       == Getenv(env, HomeName)
    IN  IF asUnprivilegedUser
        THEN Append(filtered, HomeName \o <<"=">> \o
                       (IF claudeHome = <<>> THEN DefaultClaudeHome ELSE claudeHome))
        ELSE IF home # <<>> THEN Append(filtered, HomeName \o <<"=">> \o home)
        ELSE filtered

(* the variables a bridge may run with, each unset or with one of its      *)
(* values: PATH, PATHEXT, LC_ALL, TELEGRAM_BOT_TOKEN (two values),         *)
(* ELEVENLABS_API_KEY, HOME (set or empty), CLAUDE_USER_HOME (set or empty) *)
EnvChoices ==
    <<
       {<<>>, <<"P", "A", "T", "H", "=", "/", "b">>},
       {<<>>, <<"P", "A", "T", "H", "E", "X", "T", "=", "x">>},
       {<<>>, <<"L", "C", "_", "A", "L", "L", "=", "C">>},
       {<<>>, <<"T", "E", "L", "E", "G", "R", "A", "M", "_", "B", "O", "T", "_", "T", "O", "K", "E", "N", "=", "t">>, <<"T", "E", "L", "E", "G", "R", "A", "M", "_", "B", "O", "T", "_", "T", "O", "K", "E", "N", "=", "u">>},
       {<<>>, <<"E", "L", "E", "V", "E", "N", "L", "A", "B", "S", "_", "A", "P", "I", "_", "K", "E", "Y", "=", "k">>},
       {<<>>, <<"H", "O", "M", "E", "=", "/", "r">>, <<"H", "O", "M", "E", "=">>},
       {<<>>, <<"C", "L", "A", "U", "D", "E", "_", "U", "S", "E", "R", "_", "H", "O", "M", "E", "=", "/", "h">>, <<"C", "L", "A", "U", "D", "E", "_", "U", "S", "E", "R", "_", "H", "O", "M", "E", "=">>}
    >>

(* os.Environ(): the variables that are set, in their order *)
Environ(pick) ==
    SelectSeq([i \in DOMAIN EnvChoices |-> pick[i]], LAMBDA e : e # <<>>)

Environs ==
    {Environ(<<a, b, c, d, e, f, g>>) :
        a \in EnvChoices[1], b \in EnvChoices[2], c \in EnvChoices[3],
        d \in EnvChoices[4], e \in EnvChoices[5], f \in EnvChoices[6],
        g \in EnvChoices[7]}

(* the variables of the environment the allow-list or HOME speaks of *)
Forwardable(env) ==
    SelectSeq(env, LAMBDA e : Allowlisted(e) \/ HasPrefix(e, HomeName \o <<"=">>))

(* the bridge runs in environ[1]; environ[2] is a second bridge that      *)
(* differs from it only in variables outside the allow-list and HOME       *)
EnvInit ==
    /\ \E e1 \in Environs :
          \E e2 \in {e \in Environs : Forwardable(e) = Forwardable(e1)} :
              environ = <<e1, e2>>
    /\ credential \in BOOLEAN
    /\ spawned = NoSpawn
    /\ disk = {}
    /\ sessions = EmptyMap
    /\ procs = EmptyMap
    /\ nextID = 1
    /\ now = 0
    /\ turn = [t \in Slots |-> IdleTurn]
    /\ kill = IdleKill
    /\ cd = IdleCd
    /\ flushQueue = {}
    /\ flushed = {}
    /\ ops = 0
    /\ QueueIdle
    /\ DispatchIdle
    /\ MemIdle
    /\ SweepIdle
    /\ SendIdle
    /\ TurnIdle
    /\ BatchIdle
    /\ BotIdle
    /\ RetentionIdle
    /\ LockIdle
    /\ SummaryIdle
    /\ StreamIdle
    /\ TreeIdle
    /\ RateIdle
    /\ RaceIdle

(* session.go lines 423-429: the command of a turn gets buildClaudeEnv *)
SpawnTurn ==
    /\ spawned.kind = "none"
    /\ spawned' = [kind |-> "turn",
                   env  |-> buildClaudeEnv(environ[1], credential),
                   twin |-> buildClaudeEnv(environ[2], credential)]
    /\ UNCHANGED <<environ, credential>>

(* FlushSession: the command of the summary gets os.Environ() *)
SpawnFlush ==
    /\ spawned.kind = "none"
    /\ spawned' = [kind |-> "flush", env |-> environ[1], twin |-> environ[2]]
    /\ UNCHANGED <<environ, credential>>

(* the subprocess has ended *)
SpawnExit ==
    /\ spawned.kind # "none"
    /\ spawned' = NoSpawn
    /\ UNCHANGED <<environ, credential>>

EnvNext ==
    \/ SpawnTurn /\ UNCHANGED <<coreVars, queueVars, dispatchVars, memVars, sweepVars, sendVars, turnVars, batchVars, botVars, retentionVars, lockVars, summaryVars, streamVars, treeVars, rateVars, raceVars>>
    \/ SpawnFlush /\ UNCHANGED <<coreVars, queueVars, dispatchVars, memVars, sweepVars, sendVars, turnVars, batchVars, botVars, retentionVars, lockVars, summaryVars, streamVars, treeVars, rateVars, raceVars>>
    \/ SpawnExit /\ UNCHANGED <<coreVars, queueVars, dispatchVars, memVars, sweepVars, sendVars, turnVars, batchVars, botVars, retentionVars, lockVars, summaryVars, streamVars, treeVars, rateVars, raceVars>>

EnvSpec == EnvInit /\ [][EnvNext]_vars

(* ======================== SEND: directives ============================ *)
(* A line and a path are sequences of symbols: the characters of the       *)
(* syntax ("S", "E", "N", "D", ":", " ", "~", "/") and whole file names.    *)
SendPrefix == <<"S", "E", "N", "D", ":">>

IsSpace(c) == c \in {" ", "\t"}

RECURSIVE TrimLeft(_)
TrimLeft(str) ==
    IF str # <<>> /\ IsSpace(str[1]) THEN TrimLeft(Tail(str)) ELSE str

RECURSIVE TrimRight(_)
TrimRight(str) ==
    IF str # <<>> /\ IsSpace(str[Len(str)])
    THEN TrimRight(SubSeq(str, 1, Len(str) - 1)) ELSE str

(* strings.TrimSpace *)
TrimSpace(str) == TrimRight(TrimLeft(str))

(* bot.go line 469: ^SEND:\s*(.+)$ matches when something follows SEND: *)
SendMatches(line) ==
    HasPrefix(line, SendPrefix) /\ Len(line) > Len(SendPrefix)

(* the capture: what follows the white space, or the last blank if the     *)
(* rest of the line is white space only                                    *)
SendCapture(line) ==
    LET rest == SubSeq(line, Len(SendPrefix) + 1, Len(line))
    IN  IF TrimLeft(rest) = <<>> THEN <<rest[Len(rest)]>> ELSE TrimLeft(rest)

(* bot.go lines 471-476: trim, and put the home directory for a leading ~/ *)
SendPath(line, home) ==
    LET p == TrimSpace(SendCapture(line))
    IN  IF HasPrefix(p, <<"~", "/">>)
        THEN home \o <<"/">> \o SubSeq(p, 3, Len(p))
        ELSE p

RECURSIVE PathsOf(_, _)
PathsOf(lines, home) ==
    IF lines = <<>> THEN <<>>
    ELSE IF SendMatches(Head(lines))
    THEN <<SendPath(Head(lines), home)>> \o PathsOf(Tail(lines), home)
    ELSE PathsOf(Tail(lines), home)

(* bot.go lines 465-484 *)
extractSendDirectives(lines, home) ==
    [clean |-> SelectSeq(lines, LAMBDA l : ~SendMatches(l)),
     paths |-> PathsOf(lines, home)]

(* filepath.Clean of a rooted path: the names that remain, in order *)
RECURSIVE Clean(_, _)
Clean(p, stack) ==
    IF p = <<>> THEN stack
    ELSE IF Head(p) \in {"/", "."} THEN Clean(Tail(p), stack)
    ELSE IF Head(p) = ".."
    THEN Clean(Tail(p), IF stack = <<>> THEN <<>>
                        ELSE SubSeq(stack, 1, Len(stack) - 1))
    ELSE Clean(Tail(p), Append(stack, Head(p)))

(* the working directory of the daemon *)
Cwd == <<"/", "root">>

(* filepath.Abs *)
Abs(p) ==
    IF p # <<>> /\ Head(p) = "/" THEN Clean(p, <<>>)
    ELSE Clean(Cwd \o <<"/">> \o p, <<>>)

(* bot.go lines 365-374: each normalized path once, in order *)
RECURSIVE Dedup(_, _)
Dedup(paths, seen) ==
    IF paths = <<>> THEN <<>>
    ELSE LET norm == Abs(Head(paths))
         IN  IF norm \in seen THEN Dedup(Tail(paths), seen)
             ELSE <<norm>> \o Dedup(Tail(paths), seen \cup {norm})

(* strings.TrimSpace(result.Text) == "" *)
Blank(lines) == \A i \in DOMAIN lines : TrimSpace(lines[i]) = <<>>

NoResponseText == <<"(No response from Claude)">>

(* the lines an assistant can answer with *)
ReplyLines ==
    {<<"Done">>,
     <<"Use", " ", "S", "E", "N", "D", ":", " ", "/", "tmp", "/", "a.png">>,
     <<"S", "E", "N", "D", ":", " ", "/", "tmp", "/", "a.png">>,
     <<"S", "E", "N", "D", ":", "/", "tmp", "/", "a.png", " ">>,
     <<"S", "E", "N", "D", ":", " ", "/", "etc", "/", "shadow">>,
     <<"S", "E", "N", "D", ":", " ", "/", "tmp", "/", "..", "/", "etc", "/", "shadow">>,
     <<"S", "E", "N", "D", ":", " ", "/", "tmp", "/", "token.txt">>,
     <<"S", "E", "N", "D", ":", " ", "/", "mnt", "/", "pai-data", "/", "project-other",
       "/", "f.txt">>,
     <<"S", "E", "N", "D", ":", " ", "~", "/", "notes.md">>}

Replies == {<<l>> : l \in ReplyLines} \cup (ReplyLines \X ReplyLines)

(* os.UserHomeDir() of the daemon *)
Homes == {<<"/", "root">>, <<"/", "home", "/", "pai">>}

(* the files that are not there when handleMessage looks (os.Stat) *)
MissingSets == {{}, {<<"tmp", "a.png">>}}

SendInit ==
    /\ reply = NoReply
    /\ sent = NoSent
    /\ disk = {}
    /\ sessions = EmptyMap
    /\ procs = EmptyMap
    /\ nextID = 1
    /\ now = 0
    /\ turn = [t \in Slots |-> IdleTurn]
    /\ kill = IdleKill
    /\ cd = IdleCd
    /\ flushQueue = {}
    /\ flushed = {}
    /\ ops = 0
    /\ QueueIdle
    /\ DispatchIdle
    /\ MemIdle
    /\ SweepIdle
    /\ EnvIdle
    /\ TurnIdle
    /\ BatchIdle
    /\ BotIdle
    /\ RetentionIdle
    /\ LockIdle
    /\ SummaryIdle
    /\ StreamIdle
    /\ TreeIdle
    /\ RateIdle
    /\ RaceIdle

(* bot.go lines 342-391: handleMessage with the result of the turn *)
HandleReply(lines, home, missing) ==
    /\ ~sent.handled
    /\ reply' = [lines |-> lines, home |-> home, missing |-> missing]
    /\ sent' = IF Blank(lines)
               THEN [handled |-> TRUE, text |-> NoResponseText, files |-> <<>>]
               ELSE LET ex == extractSendDirectives(lines, home)
                    IN  [handled |-> TRUE,
                         text    |-> ex.clean,
                         files   |-> SelectSeq(Dedup(ex.paths, {}),
                                               LAMBDA f : f \notin missing)]

(* the handler goroutine ends *)
HandleDone ==
    /\ sent.handled
    /\ reply' = NoReply
    /\ sent' = NoSent

SendNext ==
    \/ (\E lines \in Replies, home \in Homes, missing \in MissingSets : HandleReply(lines, home, missing)) /\ UNCHANGED <<coreVars, queueVars, dispatchVars, memVars, sweepVars, envVars, turnVars, batchVars, botVars, retentionVars, lockVars, summaryVars, streamVars, treeVars, rateVars, raceVars>>
    \/ HandleDone /\ UNCHANGED <<coreVars, queueVars, dispatchVars, memVars, sweepVars, envVars, turnVars, batchVars, botVars, retentionVars, lockVars, summaryVars, streamVars, treeVars, rateVars, raceVars>>

SendSpec == SendInit /\ [][SendNext]_vars

(* ============================== claims =============================== *)

(* the invocations of session id that are in flight: accepted (the status  *)
(* was flipped to busy) and cmd.Wait has not returned yet                  *)
InFlight(id) == {t \in Slots : turn[t].pc \in {"spawn", "run"} /\ turn[t].sid = id}

(* C1: for every user's session at most one assistant invocation is in     *)
(* flight at any time, and the status is busy exactly while that one       *)
(* invocation is in flight.                                                *)
C1_OneInvocationExactlyWhileBusy ==
    \A u \in DOMAIN sessions :
        LET n == Cardinality(InFlight(sessions[u].ID))
        IN  n <= 1 /\ (sessions[u].Status = "busy" <=> n = 1)

(* C2: an accepted SendMessage call returns to its caller only after the  *)
(* session's status is back to active (first part of the claim): when an   *)
(* accepted call has returned and no other invocation of that session is   *)
(* in flight, the session, if still registered, is active.                 *)
C2_ReturnsOnlyAfterActive ==
    \A t \in Slots :
        (turn[t].pc = "ret" /\ turn[t].sid # "") =>
            \A u \in DOMAIN sessions :
                (sessions[u].ID = turn[t].sid /\ InFlight(turn[t].sid) = {})
                    => sessions[u].Status = "active"

C4_RegistryWithinCap == Cardinality(DOMAIN sessions) <= MaxConcurrent

(* C5: the registry holds at most one session per user id.                 *)
C5_OneSessionPerUser ==
    \A k1 \in DOMAIN sessions : \A k2 \in DOMAIN sessions :
        sessions[k1].UserID = sessions[k2].UserID => k1 = k2

(* a session that was reloaded from a snapshot taken while it was busy *)
C5_Witness ==
    \E u \in DOMAIN sessions :
        /\ sessions[u].Status = "active"
        /\ sessions[u].MessageCount > 0
        /\ marshalSession([sessions[u] EXCEPT !.Status = "busy"]) \in disk

(* C10: KillSession(u) returns true exactly when a session of u is in the  *)
(* registry at the call; when it has returned true the session is in       *)
(* neither the registry nor the snapshot and, if its message_count > 0,    *)
(* the summary flush has completed; when it returns false, nothing changed.*)
C10_KillReturned ==
    (kill.pc = "ret" /\ kill.res) =>
        /\ kill.sid \notin SessionIDs(sessions)
        /\ kill.sid \notin {j.id : j \in disk}
        /\ kill.count > 0 => kill.sid \in flushed

C10_KillStep ==
    /\ (kill.pc = "idle" /\ kill'.pc # "idle") =>
          LET u == kill'.user
          IN  IF u \in DOMAIN sessions
              THEN /\ kill'.pc = "flush"
                   /\ kill'.sid = sessions[u].ID
                   /\ kill'.count = sessions[u].MessageCount
              ELSE /\ kill'.pc = "ret" /\ kill'.res = FALSE
                   /\ UNCHANGED <<sessions, disk, procs, nextID, turn, cd,
                                  flushQueue, flushed>>
    /\ (kill.pc = "flush" /\ kill'.pc # "flush") => (kill'.pc = "ret" /\ kill'.res = TRUE)
         \/ kill' = IdleKill

C10_KillSession == []C10_KillReturned /\ [][C10_KillStep]_vars

C10_Witness ==
    /\ kill.pc = "ret" /\ kill.res
    /\ kill.count > 0
    /\ kill.sid \in flushed
    /\ kill.user \in DOMAIN sessions

(* the place of m in the sequence s, 0 when it is not there *)
Pos(s, m) ==
    IF \E i \in 1..Len(s) : s[i] = m THEN CHOOSE i \in 1..Len(s) : s[i] = m ELSE 0

(* a is in s and comes before b *)
Before(s, a, b) == 0 < Pos(s, a) /\ Pos(s, a) < Pos(s, b)

Count(s, m) == Cardinality({i \in 1..Len(s) : s[i] = m})

C6_Depth ==
    /\ Len(pending.items) <= maxPendingMessages
    /\ \A p \in Producers :
          enq[p].pc \in {"unlock", "ret"} =>
             IF enq[p].full
             THEN enq[p].depth = 0 /\ Count(acceptLog, enq[p].msg) = 0
             ELSE /\ enq[p].depth \in 1..maxPendingMessages
                  /\ Count(acceptLog, enq[p].msg) = 1
                  /\ enq[p].pc = "unlock" =>
                        /\ Len(pending.items) = enq[p].depth
                        /\ pending.items[enq[p].depth] = enq[p].msg

C6_EnqueueStep ==
    \A p \in Producers :
        /\ (enq[p].pc = "check" /\ enq'[p].pc # "check") =>
              /\ pending' = pending
              /\ IF Len(pending.items) < maxPendingMessages
                 THEN enq'[p].pc = "append"
                 ELSE Len(pending.items) = maxPendingMessages /\ enq'[p].full
        /\ (enq[p].pc = "append" /\ enq'[p].pc # "append") =>
              /\ pending'.items = Append(pending.items, enq[p].msg)
              /\ enq'[p].depth = Len(pending.items) + 1
              /\ ~enq'[p].full

(* C6: under any interleaving of concurrent enqueues the queue depth never *)
(* exceeds 20; an enqueue that finds depth < 20 appends its message and    *)
(* returns the new depth (the old depth plus one), an enqueue that finds   *)
(* depth 20 fails with queue-full and leaves the queue unchanged.          *)
C6_QueueDepthCap == []C6_Depth /\ [][C6_EnqueueStep]_vars

(* the twentieth message was accepted in this behaviour, the next refused *)
C6_Witness ==
    /\ Len(pending.items) = maxPendingMessages
    /\ pending.items[maxPendingMessages] > maxPendingMessages
    /\ \E p \in Producers : enq[p].pc = "ret" /\ enq[p].full

(* C8: follow-ups are drained, and appear in the built batch under their   *)
(* k/n labels, in the order in which their enqueue calls completed: a      *)
(* message enqueued later never precedes one enqueued earlier.             *)
C8_DrainedInEnqueueOrder ==
    LET out == drainLog \o pending.items
    IN  /\ \A i \in 1..Len(out) :
              i < Len(out) => Before(acceptLog, out[i], out[i + 1])
        /\ \A i \in 1..Len(built) :
              /\ built[i].k = i
              /\ built[i].n = Len(built)
              /\ i < Len(built) => Before(acceptLog, built[i].msg, built[i + 1].msg)

(* a batch of two messages whose enqueue calls completed in the opposite   *)
(* order of their beginning                                                *)
C8_Witness ==
    \E i \in 1..Len(built) :
        /\ i < Len(built)
        /\ built[i].msg = CallMsg(2)
        /\ built[i + 1].msg = CallMsg(1)

C9_Conservation ==
    /\ Range(drainLog) \cup Range(pending.items) = Range(acceptLog)
    /\ \A m \in Range(acceptLog) :
          Count(drainLog, m) + Count(pending.items, m) = 1
    /\ Len(pending.items) = Len(acceptLog) - Len(drainLog)

C9_DrainStep ==
    (drn.pc = "clear" /\ drn'.pc # "clear") =>
        /\ drn.old = pending.items
        /\ pending'.items = <<>>
        /\ drainLog' = drainLog \o pending.items

(* C9: drain empties the queue and returns exactly what it held at that    *)
(* instant (nothing for a nil or empty queue); under any interleaving of   *)
(* enqueues and drains every accepted message is in exactly one place, the *)
(* queue or the result of exactly one drain, and the depth is the number   *)
(* of accepted enqueues minus the number of drained messages.              *)
C9_DrainConserves == []C9_Conservation /\ [][C9_DrainStep]_vars

(* a second drain has returned messages and the queue has filled again *)
C9_Witness ==
    /\ drn.pc = "ret" /\ drn.old # <<>>
    /\ Len(drainLog) > Len(drn.old)
    /\ pending.items # <<>>

C11_KilledTurnCancelled ==
    \A t \in Slots :
        (kill.pc = "ret" /\ kill.res /\ turn[t].sid = kill.sid /\ turn[t].pc = "run")
            => turn[t].cancelled

(* C12: for every session with message_count > 0, destruction results in   *)
(* a summary file of that session: when KillSession has returned true, and *)
(* when FlushAll has finished before the process exits.                    *)
C12_SummaryOnDestruction ==
    /\ (kill.pc = "ret" /\ kill.res /\ kill.count > 0) => kill.sid \in summaries
    /\ (shut.pc = "flush" /\ shut.toFlush = {}) =>
          \A u \in DOMAIN sessions :
              sessions[u].MessageCount > 0 => sessions[u].ID \in summaries

(* C13: no teardown path (KillSession, CleanStale, FlushAll) invokes the    *)
(* summary flush for a session whose message_count is 0.                   *)
C13_NoFlushWithoutMessages == \A c \in flushCalls : c.count > 0

(* a session without messages has been killed, one with messages flushed *)
C13_Witness ==
    /\ kill.pc = "ret" /\ kill.res /\ kill.count = 0
    /\ \A c \in flushCalls : c.sid # kill.sid

(***************************************************************************)
(* C14: whenever no registry operation is in progress, the snapshot file   *)
(* holds exactly the sessions of the registry with the same persistent     *)
(* field values (the status, which a load overwrites, is left out of the   *)
(* comparison).                                                            *)
(***************************************************************************)
Persistent(s) == [s EXCEPT !.Status = "active"]

C14_SnapshotCurrent ==
    ((\A t \in Slots : turn[t].pc = "idle") /\ kill.pc = "idle" /\ cd.pc = "idle")
        => {Persistent(unmarshalSession(j)) : j \in disk}
               = {Persistent(sessions[u]) : u \in DOMAIN sessions}

(***************************************************************************)
(* C15: saving the registry and loading the snapshot in a fresh process    *)
(* gives exactly one registry, with the same users and the same field      *)
(* values, except that every status is "active".                           *)
(***************************************************************************)
C15_RoundTrip ==
    loadFromDisk(saveToDisk(sessions))
        = {[u \in DOMAIN sessions |-> [sessions[u] EXCEPT !.Status = "active"]]}

C15_Witness ==
    \E u \in DOMAIN sessions :
        /\ sessions[u].Status = "busy"
        /\ sessions[u].ClaudeSessionID # ""
        /\ sessions[u].MessageCount > 0
        /\ marshalSession(sessions[u]) \in disk
        /\ \E v \in DOMAIN sessions : sessions[v].ClaudeSessionID = ""


(***************************************************************************)
(* C16: a run of CleanStale removes a session if and only if the session   *)
(* is not busy and either has been idle for more than timeout_minutes *    *)
(* 60000 ms, or the reset hour is set (>= 0) and is the current hour and   *)
(* the session has been idle for more than 5 minutes; the run adds no      *)
(* session and returns the number of sessions it removed.                  *)
(***************************************************************************)
C16_Due(s) ==
    LET idleMs == (now - s.LastActivityAt) * 60000
    IN  /\ s.Status # "busy"
        /\ \/ idleMs > cfg.timeoutMinutes * 60000
           \/ /\ cfg.resetHour >= 0
              /\ cfg.resetHour = CurrentHour
              /\ idleMs > 5 * 60000

C16_SweepStep ==
    (sweep.pc = "idle" /\ sweep'.pc = "ret") =>
        /\ DOMAIN sessions' \subseteq DOMAIN sessions
        /\ \A u \in DOMAIN sessions :
              /\ (u \notin DOMAIN sessions') <=> C16_Due(sessions[u])
              /\ (u \in DOMAIN sessions') => sessions'[u] = sessions[u]
        /\ sweep'.cleaned = Cardinality(DOMAIN sessions \ DOMAIN sessions')

C17_Expired(t) ==
    /\ turn[t].pc = "exited" /\ turn[t].exit = "notfound" /\ turn[t].hasResume
    /\ turn'[t].pc = "ret"
    /\ \A o \in Slots \ {t} : turn[o].pc = "idle"
    /\ kill.pc = "idle"

C17_ExpiredStep ==
    \A t \in Slots :
        C17_Expired(t) =>
            /\ turn'[t].res = "session-expired"
            /\ turn[t].user \in DOMAIN sessions' =>
                  LET s == sessions'[turn[t].user]
                  IN  s.ID = turn[t].sid =>
                         /\ s = [prior[t] EXCEPT !.ClaudeSessionID = ""]
                         /\ s.Status = "active"
                         /\ marshalSession(s) \in disk'

C17_SessionExpired == [][C17_ExpiredStep]_vars

(***************************************************************************)
(* C18: a non-zero exit with text on stderr that is not the session-       *)
(* expired case makes SendMessage return the assistant-failed error; a     *)
(* non-zero exit with nothing on stderr makes it return the buffered text  *)
(* without an error. The completion of such a turn removes no session,     *)
(* leaves the session of the user with status active and changes no        *)
(* conversation id.                                                        *)
(***************************************************************************)
C18_Failed(exit, hasResume) ==
    exit \in {"stderr", "silent"} \/ (exit = "notfound" /\ ~hasResume)

C18_CleanupStep ==
    \A t \in Slots :
        (turn[t].pc = "run" /\ turn'[t].pc = "exited"
           /\ C18_Failed(turn'[t].exit, turn[t].hasResume)) =>
            /\ DOMAIN sessions' = DOMAIN sessions
            /\ \A u \in DOMAIN sessions :
                  sessions'[u].ClaudeSessionID = sessions[u].ClaudeSessionID
            /\ turn[t].user \in DOMAIN sessions =>
                  sessions'[turn[t].user].Status = "active"

C18_ReturnStep ==
    \A t \in Slots :
        (turn[t].pc = "exited" /\ turn'[t].pc = "ret"
           /\ C18_Failed(turn[t].exit, turn[t].hasResume)) =>
            /\ turn'[t].res = IF turn[t].exit = "silent" THEN "ok"
                              ELSE "assistant-failed"
            /\ sessions' = sessions
            /\ disk' = disk

C18_FailedTurn == [][C18_CleanupStep /\ C18_ReturnStep]_vars

(* both cases have returned: one handler holds the assistant-failed error, *)
(* the other a result without error after a silent non-zero exit, and the  *)
(* sessions are registered, active, with their conversation ids            *)
C18_Witness ==
    /\ \E t \in Slots :
          /\ turn[t].pc = "ret" /\ turn[t].exit = "stderr"
          /\ turn[t].res = "assistant-failed"
          /\ turn[t].user \in DOMAIN sessions
          /\ sessions[turn[t].user].Status = "active"
    /\ \E t \in Slots :
          /\ turn[t].pc = "ret" /\ turn[t].exit = "silent" /\ turn[t].res = "ok"
          /\ turn[t].user \in DOMAIN sessions
          /\ sessions[turn[t].user].Status = "active"
          /\ sessions[turn[t].user].ClaudeSessionID # ""

(***************************************************************************)
(* C19: the environment of every assistant subprocess the bridge starts,   *)
(* for a turn and for a summary flush, holds only variables of the         *)
(* allow-list and at most one HOME after them, and two bridges whose       *)
(* environments differ only in variables outside the allow-list and HOME   *)
(* start their subprocesses with the same environment.                     *)
(***************************************************************************)
C19_OnlyAllowlisted(env) ==
    /\ \A i \in DOMAIN env :
          \/ Allowlisted(env[i])
          \/ i = Len(env) /\ HasPrefix(env[i], HomeName \o <<"=">>)
    /\ Cardinality({i \in DOMAIN env : HasPrefix(env[i], HomeName \o <<"=">>)}) <= 1

C19_SubprocessEnvironment ==
    spawned.kind # "none" =>
        /\ C19_OnlyAllowlisted(spawned.env)
        /\ C19_OnlyAllowlisted(spawned.twin)
        /\ spawned.env = spawned.twin

(***************************************************************************)
(* C20: once handleMessage has dealt with a response, no line matching     *)
(* ^SEND:\s*(.+)$ is in the text sent to the chat, every file delivered    *)
(* lies under /mnt/pai-data/projects, /mnt/pai-data/memory, /tmp or        *)
(* /home/pai and has no denied name in its path, and every captured path   *)
(* that passes both checks and exists is delivered.                        *)
(***************************************************************************)
C20_Roots ==
    {<<"mnt", "pai-data", "projects">>, <<"mnt", "pai-data", "memory">>,
     <<"tmp">>, <<"home", "pai">>}

(* the names of ReplyLines that hold a denied substring *)
C20_Denied == {"token.txt"}

C20_Safe(f) ==
    /\ \E r \in C20_Roots : HasPrefix(f, r)
    /\ \A i \in DOMAIN f : f[i] \notin C20_Denied

C20_OnlySafeFilesDelivered ==
    (sent.handled /\ ~Blank(reply.lines)) =>
        LET delivered == {sent.files[i] : i \in DOMAIN sent.files}
            captured  == {Abs(SendPath(reply.lines[i], reply.home)) :
                             i \in {j \in DOMAIN reply.lines : SendMatches(reply.lines[j])}}
        IN  /\ \A i \in DOMAIN sent.text : ~SendMatches(sent.text[i])
            /\ \A f \in delivered : C20_Safe(f)
            /\ \A f \in captured : (C20_Safe(f) /\ f \notin reply.missing) => f \in delivered

(***************************************************************************)
(* buildBatch in full: the batch text and the attachment of a drained list *)
(* of follow-up messages.  The text is kept as its sequence of lines.      *)
(***************************************************************************)

MaxBatch == 3

NoAttachment == [Type |-> "", Base64 |-> "", MimeType |-> "", FileName |-> "",
                 TextContent |-> ""]

(* the attachments of the follow-up tests *)
BatchAttachments ==
    { NoAttachment,
      [Type |-> "image", Base64 |-> "aaa", MimeType |-> "image/png",
       FileName |-> "", TextContent |-> ""],
      [Type |-> "document", Base64 |-> "bbb", MimeType |-> "application/pdf",
       FileName |-> "doc.pdf", TextContent |-> ""],
      [Type |-> "text-file", Base64 |-> "", MimeType |-> "",
       FileName |-> "config.yaml", TextContent |-> "key: value"],
      [Type |-> "text-file", Base64 |-> "", MimeType |-> "",
       FileName |-> "", TextContent |-> "data"] }

BatchTexts == {"", "hello"}

BatchMessages == [Text : BatchTexts, Attachment : BatchAttachments]

IsBinary(a) == a.Type \in {"image", "document"}

IsTextFile(a) == a.Type = "text-file"

Line(kind, i, k, body) == [kind |-> kind, i |-> i, k |-> k, body |-> body]

(* "[While you were working, I sent K follow-up message(s):]" *)
BatchHeader(k) == Line("header", 0, k, "")

(* "[Follow-up message i/K]:" and the text under it *)
BatchLabel(i, k) == Line("label", i, k, "")

(* "--- {filename or document} ---", the content, "--- end ---" *)
InlineFile(a) ==
    <<Line("file", 0, 0, IF a.FileName = "" THEN "document" ELSE a.FileName),
      Line("content", 0, 0, a.TextContent),
      Line("end", 0, 0, "")>>

BatchEntry_CountNonEmpty(msgs, i) ==
    LET k == Cardinality({j \in 1..Len(msgs) : msgs[j].Text # ""})
        n == Cardinality({j \in 1..i : msgs[j].Text # ""})
    IN  (IF msgs[i].Text # ""
            THEN <<BatchLabel(n, k), Line("text", 0, 0, msgs[i].Text)>>
            ELSE <<>>)
        \o (IF IsTextFile(msgs[i].Attachment)
               THEN InlineFile(msgs[i].Attachment) ELSE <<>>)

(* the lines message i of the list adds to the batch text *)
BatchEntry(msgs, i) ==
    (IF msgs[i].Text # ""
        THEN <<BatchLabel(i, Len(msgs)), Line("text", 0, 0, msgs[i].Text)>>
        ELSE <<>>)
    \o (IF IsTextFile(msgs[i].Attachment)
           THEN InlineFile(msgs[i].Attachment) ELSE <<>>)

RECURSIVE BatchEntries(_, _)
BatchEntries(msgs, i) ==
    IF i > Len(msgs) THEN <<>>
    ELSE BatchEntry(msgs, i) \o BatchEntries(msgs, i + 1)

BatchAttachment_First(msgs) ==
    LET bin == {i \in 1..Len(msgs) : IsBinary(msgs[i].Attachment)}
    IN  IF bin = {} THEN NoAttachment
        ELSE msgs[CHOOSE i \in bin : \A j \in bin : i <= j].Attachment

(* the attachment of the batch: the last binary one, nil when there is none *)
BatchAttachment(msgs) ==
    LET bin == {i \in 1..Len(msgs) : IsBinary(msgs[i].Attachment)}
    IN  IF bin = {} THEN NoAttachment
        ELSE msgs[CHOOSE i \in bin : \A j \in bin : j <= i].Attachment

(* nothing to send: every text is empty and no binary attachment is left *)
BatchEmpty(msgs) ==
    /\ \A i \in 1..Len(msgs) : msgs[i].Text = ""
    /\ BatchAttachment(msgs) = NoAttachment

BatchText(msgs) ==
    IF BatchEmpty(msgs) THEN <<>>
    ELSE <<BatchHeader(Len(msgs))>> \o BatchEntries(msgs, 1)

BatchLists == UNION {[1..n -> BatchMessages] : n \in 1..MaxBatch}

BatchInit ==
    /\ sessions = EmptyMap
    /\ disk = {}
    /\ procs = EmptyMap
    /\ nextID = 1
    /\ now = 0
    /\ turn = [t \in Slots |-> IdleTurn]
    /\ kill = IdleKill
    /\ cd = IdleCd
    /\ flushQueue = {}
    /\ flushed = {}
    /\ ops = 0
    /\ QueueIdle
    /\ DispatchIdle
    /\ MemIdle
    /\ SweepIdle
    /\ EnvIdle
    /\ SendIdle
    /\ TurnIdle
    /\ BotIdle
    /\ RetentionIdle
    /\ LockIdle
    /\ SummaryIdle
    /\ StreamIdle
    /\ TreeIdle
    /\ RateIdle
    /\ RaceIdle
    /\ \E msgs \in BatchLists : batch = [NoBatch EXCEPT !.msgs = msgs]

(* buildBatch(msgs) of the drained list *)
BuildBatch ==
    /\ ~batch.built
    /\ batch' = [batch EXCEPT !.built = TRUE,
                              !.text = BatchText(batch.msgs),
                              !.attachment = BatchAttachment(batch.msgs)]

BatchNext ==
    \/ BuildBatch /\ UNCHANGED <<coreVars, queueVars, dispatchVars, memVars, sweepVars, envVars, sendVars, turnVars, botVars, retentionVars, lockVars, summaryVars, streamVars, treeVars, rateVars, raceVars>>

BatchSpec == BatchInit /\ [][BatchNext]_vars


(***************************************************************************)
(* The bot: handleUpdate and authorize (bot.go) in front of the session    *)
(* layer.  Each update runs in a handler goroutine of its own.             *)
(***************************************************************************)

(* no update is dispatched once this many operations have begun *)
BotMaxOps == 2

(* msg.From of an update: a user, or "" for a message without sender *)
Senders == Users \cup {""}

(* what the message is: text (or photo, document), /clear, /cd *)
UpdateKinds == {"text", "clear", "cd"}

(* config.AllowedUsers of the modelled runs: no allowlist, or u2 only *)
AllowLists == {{}, {"u2"}}

authorize_Everyone(allowedUsers, from) == from # ""

(* bot.go lines 396-414 *)
authorize(allowedUsers, from) ==
    /\ from # ""
    /\ (allowedUsers = {} \/ from \in allowedUsers)

(* no handler has panicked: the process is alive *)
BotRunning == \A t \in Slots : inbox[t].pc # "panic"

BotInit ==
    /\ now = 0
    /\ \E fresh \in BOOLEAN :
          /\ sessions = IF fresh THEN EmptyMap ELSE QueueUser :> ResumedSession
          /\ nextID = IF fresh THEN 1 ELSE 2
    /\ disk = saveToDisk(sessions)
    /\ procs = EmptyMap
    /\ turn = [t \in Slots |-> IdleTurn]
    /\ kill = IdleKill
    /\ cd = IdleCd
    /\ flushQueue = {}
    /\ flushed = {}
    /\ ops = 0
    /\ QueueIdle
    /\ DispatchIdle
    /\ MemIdle
    /\ SweepIdle
    /\ EnvIdle
    /\ SendIdle
    /\ TurnIdle
    /\ BatchIdle
    /\ RetentionIdle
    /\ LockIdle
    /\ SummaryIdle
    /\ StreamIdle
    /\ TreeIdle
    /\ RateIdle
    /\ RaceIdle
    /\ allowed \in AllowLists
    /\ stopCh = FALSE
    /\ poll = "idle"
    /\ inbox = [t \in Slots |-> NoUpdate]

(* bot.go line 88: go b.handleUpdate(update) *)
HandleUpdate(t, from, kind) ==
    /\ BotRunning
    /\ inbox[t].pc = "idle"
    /\ FreeSlot(t)
    /\ ops < BotMaxOps
    /\ inbox' = [inbox EXCEPT ![t] = [pc |-> "auth", from |-> from, kind |-> kind]]
    /\ UNCHANGED <<allowed, stopCh, poll>>

(* bot.go line 106: msg.From.ID is read before authorize looks at msg.From *)
HandlePanic(t) ==
    /\ BotRunning
    /\ inbox[t].pc = "auth"
    /\ inbox[t].from = ""
    /\ inbox' = [inbox EXCEPT ![t].pc = "panic"]
    /\ UNCHANGED <<allowed, stopCh, poll>>

(* bot.go lines 108-110 *)
HandleAuthorize(t) ==
    /\ BotRunning
    /\ inbox[t].pc = "auth"
    /\ inbox[t].from # ""
    /\ inbox' = [inbox EXCEPT ![t].pc =
                    IF authorize(allowed, inbox[t].from) THEN "handle" ELSE "denied"]
    /\ UNCHANGED <<allowed, stopCh, poll>>

(* bot.go lines 412-413 and 109: "Unauthorized." is sent, the handler ends *)
HandleDenied(t) ==
    /\ BotRunning
    /\ inbox[t].pc = "denied"
    /\ inbox' = [inbox EXCEPT ![t] = NoUpdate]
    /\ UNCHANGED <<allowed, stopCh, poll>>

(* bot.go lines 119-132: handleMessage calls SendMessage *)
HandleMessage(t) ==
    /\ BotRunning
    /\ inbox[t].pc = "handle"
    /\ inbox[t].kind = "text"
    /\ SendMessageEnter(t, inbox[t].from)
    /\ inbox' = [inbox EXCEPT ![t] = NoUpdate]
    /\ UNCHANGED <<allowed, stopCh, poll>>

(* bot.go lines 155-161: /clear *)
HandleClear(t) ==
    /\ BotRunning
    /\ inbox[t].pc = "handle"
    /\ inbox[t].kind = "clear"
    /\ KillSessionLocked(inbox[t].from)
    /\ inbox' = [inbox EXCEPT ![t] = NoUpdate]
    /\ UNCHANGED <<allowed, stopCh, poll>>

(* bot.go lines 163-191: /cd *)
HandleCd(t) ==
    /\ BotRunning
    /\ inbox[t].pc = "handle"
    /\ inbox[t].kind = "cd"
    /\ CdGetSession(inbox[t].from, inbox[t].from)
    /\ inbox' = [inbox EXCEPT ![t] = NoUpdate]
    /\ UNCHANGED <<allowed, stopCh, poll>>

BotNext ==
    \/ (\E t \in Slots, from \in Senders, kind \in UpdateKinds : HandleUpdate(t, from, kind)) /\ UNCHANGED <<coreVars, queueVars, dispatchVars, memVars, sweepVars, envVars, sendVars, turnVars, batchVars, retentionVars, lockVars, summaryVars, streamVars, treeVars, rateVars, raceVars>>
    \/ (\E t \in Slots : HandlePanic(t)) /\ UNCHANGED <<coreVars, queueVars, dispatchVars, memVars, sweepVars, envVars, sendVars, turnVars, batchVars, retentionVars, lockVars, summaryVars, streamVars, treeVars, rateVars, raceVars>>
    \/ (\E t \in Slots : HandleAuthorize(t)) /\ UNCHANGED <<coreVars, queueVars, dispatchVars, memVars, sweepVars, envVars, sendVars, turnVars, batchVars, retentionVars, lockVars, summaryVars, streamVars, treeVars, rateVars, raceVars>>
    \/ (\E t \in Slots : HandleDenied(t)) /\ UNCHANGED <<coreVars, queueVars, dispatchVars, memVars, sweepVars, envVars, sendVars, turnVars, batchVars, retentionVars, lockVars, summaryVars, streamVars, treeVars, rateVars, raceVars>>
    \/ (\E t \in Slots : HandleMessage(t)) /\ UNCHANGED <<queueVars, dispatchVars, memVars, sweepVars, envVars, sendVars, turnVars, batchVars, retentionVars, lockVars, summaryVars, streamVars, treeVars, rateVars, raceVars>>
    \/ (\E t \in Slots : HandleClear(t)) /\ UNCHANGED <<queueVars, dispatchVars, memVars, sweepVars, envVars, sendVars, turnVars, batchVars, retentionVars, lockVars, summaryVars, streamVars, treeVars, rateVars, raceVars>>
    \/ (\E t \in Slots : HandleCd(t)) /\ UNCHANGED <<queueVars, dispatchVars, memVars, sweepVars, envVars, sendVars, turnVars, batchVars, retentionVars, lockVars, summaryVars, streamVars, treeVars, rateVars, raceVars>>
    \/ (BotRunning /\ \E t \in Slots, k \in PipeFailures : SendMessagePipeFail(t, k)) /\ UNCHANGED <<queueVars, dispatchVars, memVars, sweepVars, envVars, sendVars, turnVars, batchVars, botVars, retentionVars, lockVars, summaryVars, streamVars, treeVars, rateVars, raceVars>>
    \/ (BotRunning /\ \E t \in Slots : SendMessageStart(t)) /\ UNCHANGED <<queueVars, dispatchVars, memVars, sweepVars, envVars, sendVars, turnVars, batchVars, botVars, retentionVars, lockVars, summaryVars, streamVars, treeVars, rateVars, raceVars>>
    \/ (BotRunning /\ \E t \in Slots, c \in ConvIDs : SendMessageEvent(t, c)) /\ UNCHANGED <<queueVars, dispatchVars, memVars, sweepVars, envVars, sendVars, turnVars, batchVars, botVars, retentionVars, lockVars, summaryVars, streamVars, treeVars, rateVars, raceVars>>
    \/ (BotRunning /\ \E t \in Slots, e \in Exits : SendMessageWait(t, e)) /\ UNCHANGED <<queueVars, dispatchVars, memVars, sweepVars, envVars, sendVars, turnVars, batchVars, botVars, retentionVars, lockVars, summaryVars, streamVars, treeVars, rateVars, raceVars>>
    \/ (BotRunning /\ \E t \in Slots : SendMessageFinish(t)) /\ UNCHANGED <<queueVars, dispatchVars, memVars, sweepVars, envVars, sendVars, turnVars, batchVars, botVars, retentionVars, lockVars, summaryVars, streamVars, treeVars, rateVars, raceVars>>
    \/ (BotRunning /\ \E t \in Slots : SendMessageReturn(t)) /\ UNCHANGED <<queueVars, dispatchVars, memVars, sweepVars, envVars, sendVars, turnVars, batchVars, botVars, retentionVars, lockVars, summaryVars, streamVars, treeVars, rateVars, raceVars>>
    \/ (BotRunning /\ KillSessionFlush) /\ UNCHANGED <<queueVars, dispatchVars, memVars, sweepVars, envVars, sendVars, turnVars, batchVars, botVars, retentionVars, lockVars, summaryVars, streamVars, treeVars, rateVars, raceVars>>
    \/ (BotRunning /\ KillSessionReturn) /\ UNCHANGED <<queueVars, dispatchVars, memVars, sweepVars, envVars, sendVars, turnVars, batchVars, botVars, retentionVars, lockVars, summaryVars, streamVars, treeVars, rateVars, raceVars>>
    \/ (BotRunning /\ CdCreateSession) /\ UNCHANGED <<queueVars, dispatchVars, memVars, sweepVars, envVars, sendVars, turnVars, batchVars, botVars, retentionVars, lockVars, summaryVars, streamVars, treeVars, rateVars, raceVars>>
    \/ (BotRunning /\ \E d \in WorkDirs : CdSetWorkDir(d)) /\ UNCHANGED <<queueVars, dispatchVars, memVars, sweepVars, envVars, sendVars, turnVars, batchVars, botVars, retentionVars, lockVars, summaryVars, streamVars, treeVars, rateVars, raceVars>>

BotSpec == BotInit /\ [][BotNext]_vars

(***************************************************************************)
(* The ticker of main.go with the retention cleanup CleanStale starts:     *)
(* one CleanStale per tick of 60 seconds, the clock counting minutes.      *)
(***************************************************************************)

(* the hour since the epoch in which the clock stands: one reset window *)
Window == (cfg.origin + now) \div 60

RetentionInit == SweepInit

(* session.go lines 296-299: go sm.memory.CleanOldFiles() *)
CleanOldFiles(runs, dailyResetActive) ==
    IF dailyResetActive
    THEN Append(runs, [window |-> Window, hour |-> CurrentHour])
    ELSE runs

(* main.go lines 86-88: the tick that has come calls CleanStale *)
RetentionCleanStale ==
    /\ retention.last < now
    /\ SweepCleanStale
    /\ retention' = [last |-> now,
                     runs |-> CleanOldFiles(retention.runs,
                                 DailyResetActive(cfg.resetHour, CurrentHour))]

RetentionNext ==
    \/ RetentionCleanStale /\ UNCHANGED <<queueVars, dispatchVars, memVars, envVars, sendVars, turnVars, batchVars, botVars, lockVars, summaryVars, streamVars, treeVars, rateVars, raceVars>>
    \/ SweepReturn /\ UNCHANGED <<queueVars, dispatchVars, memVars, envVars, sendVars, turnVars, batchVars, botVars, retentionVars, lockVars, summaryVars, streamVars, treeVars, rateVars, raceVars>>
    \/ SweepTick /\ UNCHANGED <<queueVars, dispatchVars, memVars, envVars, sendVars, turnVars, batchVars, botVars, retentionVars, lockVars, summaryVars, streamVars, treeVars, rateVars, raceVars>>

RetentionSpec == RetentionInit /\ [][RetentionNext]_vars

(***************************************************************************)
(* The locks of the SessionManager: sm.mu (a sync.RWMutex over the         *)
(* registry) and the queue lock session.pendingMu.  Each operation is the  *)
(* sequence of its lock operations and of its long-running steps, with the *)
(* source line of each step.                                               *)
(***************************************************************************)

At(act, line) == [act |-> act, line |-> line]

(* SendMessage turned down at the locked entry: still busy, or the cap *)
SendMessageRejectedProgram == <<At("Lock", 323), At("Unlock", 326)>>

(* SendMessage, a turn whose system record sets the conversation id *)
SendMessageProgram ==
    <<At("Lock", 323), At("Unlock", 364), At("log", 413), At("spawn", 501),
      At("Lock", 507), At("Unlock", 509), At("stream", 517),
      At("Lock", 531), At("Unlock", 537), At("stream", 517), At("wait", 560),
      At("Lock", 563), At("Unlock", 569), At("log", 591)>>

(* SendMessage, a resumed turn that ends in session-expired *)
SendMessageExpiredProgram ==
    <<At("Lock", 323), At("Unlock", 364), At("log", 413), At("spawn", 501),
      At("Lock", 507), At("Unlock", 509), At("stream", 517), At("wait", 560),
      At("Lock", 563), At("Unlock", 569), At("Lock", 576), At("Unlock", 581)>>

KillSessionProgram_FlushLocked ==
    <<At("Lock", 161), At("flush", 184), At("Unlock", 180)>>

(* KillSession of a registered session: the flush follows the unlock *)
KillSessionProgram == <<At("Lock", 161), At("Unlock", 180), At("flush", 184)>>

(* CleanStale: the scan under the lock, then the asynchronous flushes *)
CleanStaleProgram == <<At("Lock", 235), At("Unlock", 289), At("flush", 293)>>

(* FlushAll: the sessions are collected under the read lock *)
FlushAllProgram == <<At("RLock", 210), At("RUnlock", 221), At("flush", 229)>>

(* ListSessions, GetSession, CanCreate: a read under the read lock *)
ListSessionsProgram == <<At("RLock", 191), At("RUnlock", 192)>>

(* enqueue: the session is looked up in the registry and its queue lock    *)
(* taken while the registry lock is still held                             *)
enqueueProgram ==
    <<At("RLock", 0), At("QLock", 0), At("QUnlock", 0), At("RUnlock", 0)>>

(* drainPending: the caller has the session, only the queue lock is taken *)
drainPendingProgram == <<At("QLock", 0), At("QUnlock", 0)>>

Programs ==
    [SendMessageRejected |-> SendMessageRejectedProgram,
     SendMessage         |-> SendMessageProgram,
     SendMessageExpired  |-> SendMessageExpiredProgram,
     KillSession         |-> KillSessionProgram,
     CleanStale          |-> CleanStaleProgram,
     FlushAll            |-> FlushAllProgram,
     ListSessions        |-> ListSessionsProgram,
     enqueue             |-> enqueueProgram,
     drainPending        |-> drainPendingProgram]

(* the sweeper is one goroutine; the handlers run everything else *)
ProgramsOf(g) ==
    IF g = "g3" THEN {"CleanStale", "FlushAll"}
    ELSE DOMAIN Programs \ {"CleanStale", "FlushAll"}

Running(g) == lk[g].prog # ""

(* the step goroutine g stands before *)
NextStep(g) == Programs[lk[g].prog][lk[g].i]

Holds(g) == \E mode \in {"w", "r"} : <<g, mode>> \in smMu

(* g moves past its step; the operation returns after the last one *)
Advance(g) ==
    lk' = [lk EXCEPT ![g] = IF lk[g].i = Len(Programs[lk[g].prog])
                            THEN IdleGoroutine
                            ELSE [lk[g] EXCEPT !.i = @ + 1]]

LockInit ==
    /\ sessions = EmptyMap
    /\ disk = {}
    /\ procs = EmptyMap
    /\ nextID = 1
    /\ now = 0
    /\ turn = [t \in Slots |-> IdleTurn]
    /\ kill = IdleKill
    /\ cd = IdleCd
    /\ flushQueue = {}
    /\ flushed = {}
    /\ ops = 0
    /\ QueueIdle
    /\ DispatchIdle
    /\ MemIdle
    /\ SweepIdle
    /\ EnvIdle
    /\ SendIdle
    /\ TurnIdle
    /\ BatchIdle
    /\ BotIdle
    /\ RetentionIdle
    /\ LockIdle
    /\ SummaryIdle
    /\ StreamIdle
    /\ TreeIdle
    /\ RateIdle
    /\ RaceIdle

(* a goroutine enters an operation *)
LockBegin(g, prog) ==
    /\ ~Running(g)
    /\ lk' = [lk EXCEPT ![g] = [prog |-> prog, i |-> 1]]
    /\ UNCHANGED <<smMu, pendingMu>>

(* sm.mu.Lock(): returns when nobody holds the lock *)
MuLock(g) ==
    /\ Running(g)
    /\ NextStep(g).act = "Lock"
    /\ smMu = {}
    /\ smMu' = {<<g, "w">>}
    /\ Advance(g)
    /\ UNCHANGED pendingMu

(* sm.mu.RLock(): returns when no writer holds the lock *)
MuRLock(g) ==
    /\ Running(g)
    /\ NextStep(g).act = "RLock"
    /\ \A h \in smMu : h[2] = "r"
    /\ smMu' = smMu \cup {<<g, "r">>}
    /\ Advance(g)
    /\ UNCHANGED pendingMu

(* sm.mu.Unlock() and sm.mu.RUnlock() *)
MuUnlock(g) ==
    /\ Running(g)
    /\ NextStep(g).act \in {"Unlock", "RUnlock"}
    /\ smMu' = {h \in smMu : h[1] # g}
    /\ Advance(g)
    /\ UNCHANGED pendingMu

(* session.pendingMu.Lock() *)
QueueLock(g) ==
    /\ Running(g)
    /\ NextStep(g).act = "QLock"
    /\ LockFree(pendingMu)
    /\ pendingMu' = g
    /\ Advance(g)
    /\ UNCHANGED smMu

(* session.pendingMu.Unlock() *)
QueueUnlock(g) ==
    /\ Running(g)
    /\ NextStep(g).act = "QUnlock"
    /\ pendingMu' = ""
    /\ Advance(g)
    /\ UNCHANGED smMu

(* the steps that take time: a subprocess is started, its stream is read,  *)
(* it is waited for, a turn is logged, a summary flush runs; each one ends *)
(* (the turn has a deadline of 10 minutes, the flush one of 2)             *)
LongSteps == {"spawn", "stream", "wait", "flush", "log"}

LockWork(g) ==
    /\ Running(g)
    /\ NextStep(g).act \in LongSteps
    /\ Advance(g)
    /\ UNCHANGED <<smMu, pendingMu>>

lockRest == <<pending, enq, drn, calls, acceptLog, drainLog, built>>

LockNext ==
    \/ (\E g \in Goroutines : \E prog \in ProgramsOf(g) : LockBegin(g, prog)) /\ UNCHANGED <<coreVars, lockRest, dispatchVars, memVars, sweepVars, envVars, sendVars, turnVars, batchVars, botVars, retentionVars, summaryVars, streamVars, treeVars, rateVars, raceVars>>
    \/ (\E g \in Goroutines : MuLock(g)) /\ UNCHANGED <<coreVars, lockRest, dispatchVars, memVars, sweepVars, envVars, sendVars, turnVars, batchVars, botVars, retentionVars, summaryVars, streamVars, treeVars, rateVars, raceVars>>
    \/ (\E g \in Goroutines : MuRLock(g)) /\ UNCHANGED <<coreVars, lockRest, dispatchVars, memVars, sweepVars, envVars, sendVars, turnVars, batchVars, botVars, retentionVars, summaryVars, streamVars, treeVars, rateVars, raceVars>>
    \/ (\E g \in Goroutines : MuUnlock(g)) /\ UNCHANGED <<coreVars, lockRest, dispatchVars, memVars, sweepVars, envVars, sendVars, turnVars, batchVars, botVars, retentionVars, summaryVars, streamVars, treeVars, rateVars, raceVars>>
    \/ (\E g \in Goroutines : QueueLock(g)) /\ UNCHANGED <<coreVars, lockRest, dispatchVars, memVars, sweepVars, envVars, sendVars, turnVars, batchVars, botVars, retentionVars, summaryVars, streamVars, treeVars, rateVars, raceVars>>
    \/ (\E g \in Goroutines : QueueUnlock(g)) /\ UNCHANGED <<coreVars, lockRest, dispatchVars, memVars, sweepVars, envVars, sendVars, turnVars, batchVars, botVars, retentionVars, summaryVars, streamVars, treeVars, rateVars, raceVars>>
    \/ (\E g \in Goroutines : LockWork(g)) /\ UNCHANGED <<coreVars, lockRest, dispatchVars, memVars, sweepVars, envVars, sendVars, turnVars, batchVars, botVars, retentionVars, summaryVars, streamVars, treeVars, rateVars, raceVars>>

LockSpec == LockInit /\ [][LockNext]_vars

(***************************************************************************)
(* Shutdown: the polling loop of Bot.Start, Bot.Stop and the signal        *)
(* goroutine of main.go (bot.Stop, sessions.FlushAll, os.Exit).            *)
(***************************************************************************)

(* os.Exit has not been reached *)
Alive == shut.pc # "exited"

ShutdownInit ==
    /\ sessions = EmptyMap
    /\ disk = {}
    /\ procs = EmptyMap
    /\ nextID = 1
    /\ now = 0
    /\ turn = [t \in Slots |-> IdleTurn]
    /\ kill = IdleKill
    /\ cd = IdleCd
    /\ flushQueue = {}
    /\ flushed = {}
    /\ ops = 0
    /\ QueueIdle
    /\ DispatchIdle
    /\ MemIdle
    /\ SweepIdle
    /\ EnvIdle
    /\ SendIdle
    /\ TurnIdle
    /\ BatchIdle
    /\ BotIdle
    /\ RetentionIdle
    /\ LockIdle
    /\ SummaryIdle
    /\ StreamIdle
    /\ TreeIdle
    /\ RateIdle
    /\ RaceIdle

(* bot.go lines 63-71: the loop looks at stopCh, then calls GetUpdates *)
PollCheck ==
    /\ Alive
    /\ poll = "idle"
    /\ poll' = IF stopCh THEN "stopped" ELSE "polling"
    /\ UNCHANGED <<allowed, stopCh, inbox>>

(* bot.go lines 72-89: GetUpdates returns an update, a handler is started *)
PollReturn(t, from) ==
    /\ Alive
    /\ poll = "polling"
    /\ inbox[t].pc = "idle"
    /\ FreeSlot(t)
    /\ inbox' = [inbox EXCEPT ![t] = [pc |-> "auth", from |-> from, kind |-> "text"]]
    /\ poll' = "idle"
    /\ UNCHANGED <<allowed, stopCh>>

(* GetUpdates returns without an update: the long poll timed out *)
PollEmpty ==
    /\ Alive
    /\ poll = "polling"
    /\ poll' = "idle"
    /\ UNCHANGED <<allowed, stopCh, inbox>>

(* handleMessage calls SendMessage with the text of the update *)
ShutdownMessage(t) ==
    /\ Alive
    /\ inbox[t].pc = "handle"
    /\ SendMessageEnter(t, inbox[t].from)
    /\ inbox' = [inbox EXCEPT ![t] = NoUpdate]
    /\ text' = [text EXCEPT ![t] = "hi"]
    /\ logged' = [logged EXCEPT ![t] = FALSE]
    /\ UNCHANGED <<memCore, shut, allowed, stopCh, poll>>

(* main.go lines 95-98, bot.go lines 92-94: the signal, bot.Stop() *)
ShutdownStop ==
    /\ shut.pc = "idle"
    /\ ~stopCh
    /\ stopCh' = TRUE
    /\ UNCHANGED <<allowed, poll, inbox>>

(* main.go line 99: sessions.FlushAll() *)
ShutdownFlushAll ==
    /\ stopCh
    /\ ShutdownCollect

(* main.go line 100: os.Exit(0) *)
ShutdownOsExit ==
    /\ shut.pc = "flush"
    /\ shut.toFlush = {}
    /\ shut' = [shut EXCEPT !.pc = "exited"]
    /\ UNCHANGED <<convLog, summaries, flushCalls, text, logged>>

ShutdownNext ==
    \/ PollCheck /\ UNCHANGED <<coreVars, queueVars, dispatchVars, memVars, sweepVars, envVars, sendVars, turnVars, batchVars, retentionVars, lockVars, summaryVars, streamVars, treeVars, rateVars, raceVars>>
    \/ (\E t \in Slots, u \in TurnUsers : PollReturn(t, u)) /\ UNCHANGED <<coreVars, queueVars, dispatchVars, memVars, sweepVars, envVars, sendVars, turnVars, batchVars, retentionVars, lockVars, summaryVars, streamVars, treeVars, rateVars, raceVars>>
    \/ PollEmpty /\ UNCHANGED <<coreVars, queueVars, dispatchVars, memVars, sweepVars, envVars, sendVars, turnVars, batchVars, retentionVars, lockVars, summaryVars, streamVars, treeVars, rateVars, raceVars>>
    \/ (Alive /\ \E t \in Slots : HandleAuthorize(t)) /\ UNCHANGED <<coreVars, queueVars, dispatchVars, memVars, sweepVars, envVars, sendVars, turnVars, batchVars, retentionVars, lockVars, summaryVars, streamVars, treeVars, rateVars, raceVars>>
    \/ (\E t \in Slots : ShutdownMessage(t)) /\ UNCHANGED <<queueVars, dispatchVars, sweepVars, envVars, sendVars, turnVars, batchVars, retentionVars, lockVars, summaryVars, streamVars, treeVars, rateVars, raceVars>>
    \/ (Alive /\ \E t \in Slots : MemLogUser(t)) /\ UNCHANGED <<queueVars, dispatchVars, sweepVars, envVars, sendVars, turnVars, batchVars, botVars, retentionVars, lockVars, summaryVars, streamVars, treeVars, rateVars, raceVars>>
    \/ (Alive /\ \E t \in Slots : MemStart(t)) /\ UNCHANGED <<queueVars, dispatchVars, sweepVars, envVars, sendVars, turnVars, batchVars, botVars, retentionVars, lockVars, summaryVars, streamVars, treeVars, rateVars, raceVars>>
    \/ (Alive /\ \E t \in Slots, e \in {"ok", "stderr"} : MemWait(t, e)) /\ UNCHANGED <<queueVars, dispatchVars, sweepVars, envVars, sendVars, turnVars, batchVars, botVars, retentionVars, lockVars, summaryVars, streamVars, treeVars, rateVars, raceVars>>
    \/ (Alive /\ \E t \in Slots : MemFinish(t, "hi")) /\ UNCHANGED <<queueVars, dispatchVars, sweepVars, envVars, sendVars, turnVars, batchVars, botVars, retentionVars, lockVars, summaryVars, streamVars, treeVars, rateVars, raceVars>>
    \/ (Alive /\ \E t \in Slots : MemReturn(t)) /\ UNCHANGED <<queueVars, dispatchVars, sweepVars, envVars, sendVars, turnVars, batchVars, botVars, retentionVars, lockVars, summaryVars, streamVars, treeVars, rateVars, raceVars>>
    \/ ShutdownStop /\ UNCHANGED <<coreVars, queueVars, dispatchVars, memVars, sweepVars, envVars, sendVars, turnVars, batchVars, retentionVars, lockVars, summaryVars, streamVars, treeVars, rateVars, raceVars>>
    \/ ShutdownFlushAll /\ UNCHANGED <<queueVars, dispatchVars, sweepVars, envVars, sendVars, turnVars, batchVars, botVars, retentionVars, lockVars, summaryVars, streamVars, treeVars, rateVars, raceVars>>
    \/ (\E id \in shut.toFlush : ShutdownFlush(id)) /\ UNCHANGED <<queueVars, dispatchVars, sweepVars, envVars, sendVars, turnVars, batchVars, botVars, retentionVars, lockVars, summaryVars, streamVars, treeVars, rateVars, raceVars>>
    \/ ShutdownOsExit /\ UNCHANGED <<coreVars, queueVars, dispatchVars, sweepVars, envVars, sendVars, turnVars, batchVars, botVars, retentionVars, lockVars, summaryVars, streamVars, treeVars, rateVars, raceVars>>

ShutdownSpec == ShutdownInit /\ [][ShutdownNext]_vars

(***************************************************************************)
(* The summary files FlushSession writes, on top of the memory model:      *)
(* {basePath}/summaries/{userID}/{date}-{sessionID[:8]}.md, written with   *)
(* os.WriteFile.                                                           *)
(***************************************************************************)

(* format_test.go lines 480-484: the session id cut to 8 characters; the   *)
(* session ids of the model are shorter than that                          *)
ShortID(sid) == sid

(* time.Now().Format("2006-01-02"), the clock counting minutes *)
Date == now \div (24 * 60)

SummaryPath(sid) == <<Date, ShortID(sid)>>

(* the summary made of a conversation log: what was summarised *)
Summarise(sid, turns) == [of |-> sid, turns |-> turns]

(* format_test.go lines 426-497: os.WriteFile replaces a file that exists *)
WriteSummary(fs, log, sid) ==
    IF MemoryEnabled /\ sid \in DOMAIN log /\ log[sid] # <<>>
    THEN Put(fs, SummaryPath(sid), Summarise(sid, log[sid]))
    ELSE fs

(* the daemon runs with one session that has had a turn and has its log *)
SummaryInit ==
    /\ now = 0
    /\ sessions = QueueUser :> [NewSession("s1", QueueUser, QueueUser)
                                   EXCEPT !.MessageCount = 1]
    /\ nextID = 2
    /\ disk = saveToDisk(sessions)
    /\ procs = EmptyMap
    /\ turn = [t \in Slots |-> IdleTurn]
    /\ kill = IdleKill
    /\ cd = IdleCd
    /\ flushQueue = {}
    /\ flushed = {}
    /\ ops = 0
    /\ convLog = "s1" :> <<"user", "assistant">>
    /\ summaries = {}
    /\ flushCalls = {}
    /\ text = [t \in Slots |-> ""]
    /\ logged = [t \in Slots |-> FALSE]
    /\ shut = IdleShut
    /\ QueueIdle
    /\ DispatchIdle
    /\ SweepIdle
    /\ EnvIdle
    /\ SendIdle
    /\ TurnIdle
    /\ BatchIdle
    /\ BotIdle
    /\ RetentionIdle
    /\ LockIdle
    /\ SummaryIdle
    /\ StreamIdle
    /\ TreeIdle
    /\ RateIdle
    /\ RaceIdle

SummaryKillFlush ==
    /\ MemKillFlush
    /\ files' = IF KillNeedsFlush(kill.count)
                THEN WriteSummary(files, convLog, kill.sid) ELSE files

SummaryFlushAsync(id) ==
    /\ MemFlushAsync(id)
    /\ files' = WriteSummary(files, convLog, id)

SummaryShutdownFlush(id) ==
    /\ ShutdownFlush(id)
    /\ files' = WriteSummary(files, convLog, id)

SummaryNext ==
    \/ (\E t \in Slots, x \in Texts : MemMessage(t, x)) /\ UNCHANGED <<queueVars, dispatchVars, sweepVars, envVars, sendVars, turnVars, batchVars, botVars, retentionVars, lockVars, summaryVars, streamVars, treeVars, rateVars, raceVars>>
    \/ (\E t \in Slots : MemLogUser(t)) /\ UNCHANGED <<queueVars, dispatchVars, sweepVars, envVars, sendVars, turnVars, batchVars, botVars, retentionVars, lockVars, summaryVars, streamVars, treeVars, rateVars, raceVars>>
    \/ (\E t \in Slots, k \in PipeFailures : MemPipeFail(t, k)) /\ UNCHANGED <<queueVars, dispatchVars, sweepVars, envVars, sendVars, turnVars, batchVars, botVars, retentionVars, lockVars, summaryVars, streamVars, treeVars, rateVars, raceVars>>
    \/ (\E t \in Slots : MemStart(t)) /\ UNCHANGED <<queueVars, dispatchVars, sweepVars, envVars, sendVars, turnVars, batchVars, botVars, retentionVars, lockVars, summaryVars, streamVars, treeVars, rateVars, raceVars>>
    \/ (\E t \in Slots, c \in ConvIDs : MemEvent(t, c)) /\ UNCHANGED <<queueVars, dispatchVars, sweepVars, envVars, sendVars, turnVars, batchVars, botVars, retentionVars, lockVars, summaryVars, streamVars, treeVars, rateVars, raceVars>>
    \/ (\E t \in Slots, e \in Exits : MemWait(t, e)) /\ UNCHANGED <<queueVars, dispatchVars, sweepVars, envVars, sendVars, turnVars, batchVars, botVars, retentionVars, lockVars, summaryVars, streamVars, treeVars, rateVars, raceVars>>
    \/ (\E t \in Slots, x \in Texts : MemFinish(t, x)) /\ UNCHANGED <<queueVars, dispatchVars, sweepVars, envVars, sendVars, turnVars, batchVars, botVars, retentionVars, lockVars, summaryVars, streamVars, treeVars, rateVars, raceVars>>
    \/ (\E t \in Slots : MemReturn(t)) /\ UNCHANGED <<queueVars, dispatchVars, sweepVars, envVars, sendVars, turnVars, batchVars, botVars, retentionVars, lockVars, summaryVars, streamVars, treeVars, rateVars, raceVars>>
    \/ MemKillLocked /\ UNCHANGED <<queueVars, dispatchVars, sweepVars, envVars, sendVars, turnVars, batchVars, botVars, retentionVars, lockVars, summaryVars, streamVars, treeVars, rateVars, raceVars>>
    \/ SummaryKillFlush /\ UNCHANGED <<queueVars, dispatchVars, sweepVars, envVars, sendVars, turnVars, batchVars, botVars, retentionVars, lockVars, streamVars, treeVars, rateVars, raceVars>>
    \/ MemKillReturn /\ UNCHANGED <<queueVars, dispatchVars, sweepVars, envVars, sendVars, turnVars, batchVars, botVars, retentionVars, lockVars, summaryVars, streamVars, treeVars, rateVars, raceVars>>
    \/ (\E r \in BOOLEAN : MemCleanStale(r)) /\ UNCHANGED <<queueVars, dispatchVars, sweepVars, envVars, sendVars, turnVars, batchVars, botVars, retentionVars, lockVars, summaryVars, streamVars, treeVars, rateVars, raceVars>>
    \/ (\E id \in flushQueue : SummaryFlushAsync(id)) /\ UNCHANGED <<queueVars, dispatchVars, sweepVars, envVars, sendVars, turnVars, batchVars, botVars, retentionVars, lockVars, streamVars, treeVars, rateVars, raceVars>>
    \/ MemTick /\ UNCHANGED <<queueVars, dispatchVars, sweepVars, envVars, sendVars, turnVars, batchVars, botVars, retentionVars, lockVars, summaryVars, streamVars, treeVars, rateVars, raceVars>>
    \/ ShutdownCollect /\ UNCHANGED <<queueVars, dispatchVars, sweepVars, envVars, sendVars, turnVars, batchVars, botVars, retentionVars, lockVars, summaryVars, streamVars, treeVars, rateVars, raceVars>>
    \/ (\E id \in shut.toFlush : SummaryShutdownFlush(id)) /\ UNCHANGED <<queueVars, dispatchVars, sweepVars, envVars, sendVars, turnVars, batchVars, botVars, retentionVars, lockVars, streamVars, treeVars, rateVars, raceVars>>
    \/ ShutdownExit /\ UNCHANGED <<queueVars, dispatchVars, sweepVars, envVars, sendVars, turnVars, batchVars, botVars, retentionVars, lockVars, summaryVars, streamVars, treeVars, rateVars, raceVars>>

SummarySpec == SummaryInit /\ [][SummaryNext]_vars

(***************************************************************************)
(* C21: for K drained messages the batch text starts with the header       *)
(* naming K, and holds, in list order, for each message at position i with *)
(* a non-empty text the label i/K followed by the text unchanged, K        *)
(* counting the empty messages too; a message with an empty text gets no   *)
(* label; a text-file attachment is inlined as a block opened by its file  *)
(* name, or by "document" when it has none, and holding its content.       *)
(***************************************************************************)
C21_Labelled == {i \in 1..Len(batch.msgs) : batch.msgs[i].Text # ""}

C21_At(i) ==
    CHOOSE p \in 1..Len(batch.text) :
        batch.text[p] = [kind |-> "label", i |-> i, k |-> Len(batch.msgs), body |-> ""]

C22_Binary ==
    {i \in 1..Len(batch.msgs) : batch.msgs[i].Attachment.Type \in {"image", "document"}}

C22_BatchAttachment ==
    batch.built =>
        /\ C22_Binary = {} => batch.attachment = NoAttachment
        /\ \A i \in C22_Binary :
             (\A j \in C22_Binary : j <= i) => batch.attachment = batch.msgs[i].Attachment
        /\ batch.attachment.Type # "text-file"
        /\ (C22_Binary = {} /\ \A i \in 1..Len(batch.msgs) : batch.msgs[i].Text = "")
             => batch.text = <<>>
        /\ (C22_Binary # {} /\ \A i \in 1..Len(batch.msgs) : batch.msgs[i].Text = "")
             => (batch.text # <<>> /\ batch.attachment # NoAttachment)

C22_Witness ==
    /\ batch.built
    /\ Len(batch.msgs) = 2
    /\ batch.msgs[1].Attachment.Type = "image"
    /\ batch.msgs[2].Attachment.Type = "document"
    /\ batch.msgs[2].Text = ""
    /\ batch.msgs[1].Text = ""
    /\ batch.attachment.Base64 = "bbb"
    /\ batch.attachment.MimeType = "application/pdf"

(***************************************************************************)
(* C23: while allowed_users is non-empty, the update of a user who is not  *)
(* in the list never reaches the session layer: no step creates, changes   *)
(* or removes that user's session, and no turn, /clear or /cd runs for     *)
(* that user; while allowed_users is empty, authorize lets the update of   *)
(* every user through.                                                     *)
(***************************************************************************)
C23_Step ==
    /\ allowed # {} =>
          \A u \in Users \ allowed :
             /\ (u \in DOMAIN sessions) = (u \in DOMAIN sessions')
             /\ u \in DOMAIN sessions => sessions'[u] = sessions[u]
             /\ \A t \in Slots : turn'[t].user # u
             /\ kill'.user # u
             /\ cd'.user # u
    /\ allowed = {} =>
          \A t \in Slots :
             (inbox[t].pc = "auth" /\ inbox'[t].pc \notin {"auth", "panic"})
                => inbox'[t].pc = "handle"

C23_OnlyAllowedUsersReachSessions == [][C23_Step]_vars

C23_Witness ==
    /\ allowed = {"u2"}
    /\ \E t \in Slots : inbox[t].pc = "denied" /\ inbox[t].from = "u1"
                        /\ inbox[t].kind = "clear"
    /\ "u1" \in DOMAIN sessions
    /\ "u2" \in DOMAIN sessions

(***************************************************************************)
(* C24: once a flush of a session (by /clear, by the sweeper or by the     *)
(* flush-all of a shutdown) has read the session's conversation log, no    *)
(* user or assistant turn of that session is appended to the log any more. *)
(***************************************************************************)
C24_LogOf(log, sid) == IF sid \in DOMAIN log THEN log[sid] ELSE <<>>

C24_Step == \A sid \in flushed : C24_LogOf(convLog', sid) = C24_LogOf(convLog, sid)

C24_NoTurnLoggedAfterFlush == [][C24_Step]_vars

(***************************************************************************)
(* C25: the log writes of one session are ordered by turn: a turn writes   *)
(* its user entry before its response stream is read and its assistant    *)
(* entry after it, and no entry of a later turn of the session is written  *)
(* before the earlier turn has finished (written its assistant entry or    *)
(* failed).                                                                *)
(***************************************************************************)
C25_Unfinished(t) == turn[t].pc \in {"spawn", "run", "exited"}

C25_Step ==
    \A t \in Slots :
        /\ (turn[t].pc = "spawn" /\ turn'[t].pc = "run") => logged[t]
        /\ (~logged[t] /\ logged'[t]) =>
              \A t2 \in Slots \ {t} :
                 ~(C25_Unfinished(t2) /\ turn[t2].sid = turn[t].sid)

C25_LogOrderedByTurn == [][C25_Step]_vars

(***************************************************************************)
(* C26: a turn sets the conversation id at most once, from its first       *)
(* system record with a non-empty session_id and only when the session    *)
(* had no conversation id when the turn started; a conversation id that    *)
(* is non-empty is never replaced by a different non-empty value (the      *)
(* session-expired path only clears it).                                   *)
(***************************************************************************)
C26_Step ==
    \A u \in DOMAIN sessions \cap DOMAIN sessions' :
        (sessions'[u].ID = sessions[u].ID /\ sessions[u].ClaudeSessionID # "")
            => sessions'[u].ClaudeSessionID \in {"", sessions[u].ClaudeSessionID}

C26_ConversationIdSetOnce == [][C26_Step]_vars

(***************************************************************************)
(* C27: for every turn exactly one of two holds: the session had no        *)
(* conversation id when the turn started, the prompt begins with the       *)
(* context preface and no --resume is passed; or it had one, --resume with *)
(* that id is passed and nothing is put in front of the prompt.  A turn    *)
(* that ends in session-expired leaves its session without conversation   *)
(* id, so that the turn after it is a first turn again.                    *)
(***************************************************************************)
C27_Built(t) == turn[t].pc \in {"spawn", "run", "exited"}

C27_Had(t) == prior[t].ID # "" /\ prior[t].ClaudeSessionID # ""

C27_Preface(t) ==
    /\ Len(turn[t].cmd.prompt) > 1
    /\ turn[t].cmd.prompt[1] = "bridgeContext"

C27_Resume(t) ==
    \E i \in 1..Len(turn[t].cmd.args) : turn[t].cmd.args[i] = "--resume"

C27_Dichotomy ==
    \A t \in Slots :
        C27_Built(t) =>
            IF C27_Had(t)
            THEN /\ \E i \in 1..(Len(turn[t].cmd.args) - 1) :
                       /\ turn[t].cmd.args[i] = "--resume"
                       /\ turn[t].cmd.args[i + 1] = prior[t].ClaudeSessionID
                 /\ turn[t].cmd.prompt = <<"text">>
            ELSE /\ C27_Preface(t)
                 /\ ~C27_Resume(t)

C27_Step ==
    /\ C27_Dichotomy'
    /\ \A t \in Slots :
          (turn[t].pc = "exited" /\ turn'[t].res = "session-expired"
             /\ turn[t].user \in DOMAIN sessions')
              => sessions'[turn[t].user].ClaudeSessionID = ""

C27_PrefaceOrResume == [][C27_Step]_vars

C27_Witness ==
    \E t, t2 \in Slots :
        /\ turn[t2].pc = "ret"
        /\ turn[t2].res = "session-expired"
        /\ turn[t].pc = "spawn"
        /\ turn[t].sid = turn[t2].sid
        /\ prior[t].ClaudeSessionID = ""
        /\ C27_Preface(t)
        /\ ~C27_Resume(t)

(***************************************************************************)
(* C28: in one daily-reset window the sweeper starts CleanOldFiles once,   *)
(* however many ticks of 60 seconds fall into the window; outside the      *)
(* window, or with reset_hour = -1, it never starts it.                    *)
(***************************************************************************)
C28_RetentionOncePerWindow ==
    /\ \A i, j \in 1..Len(retention.runs) :
          i # j => retention.runs[i].window # retention.runs[j].window
    /\ \A i \in 1..Len(retention.runs) : retention.runs[i].hour = cfg.resetHour
    /\ cfg.resetHour = -1 => retention.runs = <<>>

(***************************************************************************)
(* C29: no operation holds the registry lock while it starts a subprocess, *)
(* reads a subprocess stream or runs a summary flush; the queue lock is    *)
(* taken after the registry lock, never before it, when both are held; and *)
(* no interleaving of turns, enqueues, drains, kills, sweeps and reads     *)
(* deadlocks: while an operation is unfinished, some operation can move.   *)
(***************************************************************************)
C29_CanMove(g) ==
    /\ lk[g].prog # ""
    /\ LET act == Programs[lk[g].prog][lk[g].i].act
       IN  CASE act = "Lock"  -> smMu = {}
             [] act = "RLock" -> \A h \in smMu : h[2] = "r"
             [] act = "QLock" -> pendingMu = ""
             [] OTHER         -> TRUE

C30_FlushAllStarted == shut.pc \in {"flush", "exited"}

C30_Step ==
    /\ C30_FlushAllStarted =>
          \A t \in Slots :
             /\ ~(inbox[t].pc = "idle" /\ inbox'[t].pc # "idle")
             /\ ~(turn[t].pc = "idle" /\ turn'[t].pc = "spawn")
    /\ (shut.pc # "exited" /\ shut'.pc = "exited") =>
          \A u \in DOMAIN sessions :
             sessions[u].MessageCount > 0 => sessions[u].ID \in flushed

C30_QuiescentShutdown == [][C30_Step]_vars

(***************************************************************************)
(* C31: a conversation-log record or a summary file, once written, is not  *)
(* changed or replaced by a later operation, a second flush of the same    *)
(* session (a shutdown flush, a restart, then a kill or sweep of the       *)
(* reloaded session) included: the log only grows at its end and a summary *)
(* file keeps its content.                                                 *)
(***************************************************************************)
C31_Step ==
    /\ \A sid \in DOMAIN convLog :
          /\ sid \in DOMAIN convLog'
          /\ Len(convLog'[sid]) >= Len(convLog[sid])
          /\ SubSeq(convLog'[sid], 1, Len(convLog[sid])) = convLog[sid]
    /\ \A path \in DOMAIN files :
          /\ path \in DOMAIN files'
          /\ files'[path] = files[path]

C31_WrittenOnce == [][C31_Step]_vars


(* C32: every accepted turn terminates and leaves its session not busy:    *)
(* a session that is busy is eventually not busy (or gone).                *)
C32_TurnTerminates ==
    \A u \in Users : StillBusy(sessions, u) ~> ~StillBusy(sessions, u)


(* =================== the stream-json output of a turn ================== *)
(* at most this many stdout lines in a modelled stream *)
MaxLines == 2

(* a content block of a record; a text is a sequence of characters and a   *)
(* shell command a sequence of whitespace-separated words                  *)
TextBlock(s) == [type |-> "text", text |-> s, name |-> "", file_path |-> "", command |-> <<>>]

ToolUse(n, fp, c) == [type |-> "tool_use", text |-> <<>>, name |-> n, file_path |-> fp, command |-> c]

StreamBlocks ==
    { TextBlock(<<"a">>), TextBlock(<<"b">>),
      ToolUse("Write", "/w.txt", <<>>),
      ToolUse("Read", "/r.txt", <<>>),
      ToolUse("Bash", "", <<"echo", ">", "/x.txt">>),
      ToolUse("Bash", "", <<"curl", "-o", "y.txt", "2", ">", "/dev/null", ">", "/w.txt">>) }

StreamContents ==
    {<<>>} \cup {<<b>> : b \in StreamBlocks}
           \cup {<<b1, b2>> : b1 \in StreamBlocks, b2 \in StreamBlocks}

(* a stdout line: blank, not JSON, or a JSON record *)
StreamEvent(raw, type, content) == [raw |-> raw, type |-> type, content |-> content]

StreamLines ==
    { StreamEvent("json", "assistant", c) : c \in StreamContents }
    \cup { StreamEvent("json", ty, <<TextBlock(<<"a">>), ToolUse("Write", "/w.txt", <<>>)>>) :
             ty \in {"system", "user", "result"} }
    \cup { StreamEvent("blank", "", <<>>), StreamEvent("garbage", "", <<>>) }

(* words ending in .\w+ and words starting with / *)
WithExtension == {"/w.txt", "/x.txt", "y.txt", "/r.txt"}

Absolute == {"/w.txt", "/x.txt", "/r.txt", "/dev/null"}

(* regexp.FindAllStringSubmatch: the non-overlapping matches, left to      *)
(* right, of a flag followed by a word of the target class                 *)
RECURSIVE FindAllStringSubmatch(_, _, _)
FindAllStringSubmatch(cmd, flags, targets) ==
    IF Len(cmd) < 2 THEN <<>>
    ELSE IF cmd[1] \in flags /\ cmd[2] \in targets
         THEN <<cmd[2]>> \o FindAllStringSubmatch(Tail(Tail(cmd)), flags, targets)
         ELSE FindAllStringSubmatch(Tail(cmd), flags, targets)

(* session.go:630: >\s*(/\S+\.\w+) *)
redirectPattern(cmd) == FindAllStringSubmatch(cmd, {">"}, Absolute \cap WithExtension)

(* session.go:631: (?:-o|--output)\s+["']?(\S+\.\w+)["']? *)
outputFlagPattern(cmd) == FindAllStringSubmatch(cmd, {"-o", "--output"}, WithExtension)

(* session.go:600-627 *)
RECURSIVE extractTextFromContent(_)
extractTextFromContent(content) ==
    IF content = <<>> THEN <<>>
    ELSE (IF Head(content).type = "text" THEN Head(content).text ELSE <<>>)
         \o extractTextFromContent(Tail(content))

extractTextFromEvent(event) ==
    IF event.type # "assistant" THEN <<>> ELSE extractTextFromContent(event.content)

(* session.go:649-673: the files of one block *)
extractCreatedFilesFromBlock(b) ==
    IF b.type # "tool_use" THEN <<>>
    ELSE IF b.name = "Write" THEN <<b.file_path>>
    ELSE IF b.name = "Bash" THEN redirectPattern(b.command) \o outputFlagPattern(b.command)
    ELSE <<>>

RECURSIVE extractCreatedFilesFromContent(_)
extractCreatedFilesFromContent(content) ==
    IF content = <<>> THEN <<>>
    ELSE extractCreatedFilesFromBlock(Head(content))
         \o extractCreatedFilesFromContent(Tail(content))

(* session.go:634-676 *)
extractCreatedFilesFromEvent(event) ==
    IF event.type # "assistant" THEN <<>> ELSE extractCreatedFilesFromContent(event.content)

appendUnique_Always(slice, item) == Append(slice, item)

(* session.go:733-740 *)
appendUnique(slice, item) ==
    IF \E i \in 1..Len(slice) : slice[i] = item THEN slice ELSE Append(slice, item)

(* session.go:547-549: for _, f := range ... { appendUnique } *)
RECURSIVE AppendAllUnique(_, _)
AppendAllUnique(slice, items) ==
    IF items = <<>> THEN slice
    ELSE AppendAllUnique(appendUnique(slice, Head(items)), Tail(items))

StreamInit ==
    /\ sessions = EmptyMap
    /\ disk = {}
    /\ procs = EmptyMap
    /\ nextID = 1
    /\ now = 0
    /\ turn = [t \in Slots |-> IdleTurn]
    /\ kill = IdleKill
    /\ cd = IdleCd
    /\ flushQueue = {}
    /\ flushed = {}
    /\ ops = 0
    /\ QueueIdle
    /\ DispatchIdle
    /\ MemIdle
    /\ SweepIdle
    /\ EnvIdle
    /\ SendIdle
    /\ TurnIdle
    /\ BatchIdle
    /\ BotIdle
    /\ RetentionIdle
    /\ LockIdle
    /\ SummaryIdle
    /\ TreeIdle
    /\ RateIdle
    /\ RaceIdle
    /\ \E n \in 0..MaxLines : \E ls \in [1..n -> StreamLines] :
           stream = [NoStream EXCEPT !.lines = ls]

(* session.go:517-550: one pass of the for scanner.Scan() loop *)
StreamScan ==
    /\ stream.read < Len(stream.lines)
    /\ LET line == stream.lines[stream.read + 1]
       IN  stream' =
             IF line.raw # "json"
             THEN [stream EXCEPT !.read = @ + 1]
             ELSE [stream EXCEPT !.read = @ + 1,
                                 !.fullResponse = @ \o extractTextFromEvent(line),
                                 !.createdFiles =
                                     AppendAllUnique(@, extractCreatedFilesFromEvent(line))]

StreamNext ==
    \/ StreamScan /\ UNCHANGED <<coreVars, queueVars, dispatchVars, memVars, sweepVars, envVars, sendVars, turnVars, batchVars, botVars, retentionVars, lockVars, summaryVars, treeVars, rateVars, raceVars>>

StreamSpec == StreamInit /\ [][StreamNext]_vars

(* the blocks of the assistant records among the first n lines, in order *)
RECURSIVE C33_Blocks(_)
C33_Blocks(n) ==
    IF n = 0 THEN <<>>
    ELSE C33_Blocks(n - 1)
         \o (IF stream.lines[n].raw = "json" /\ stream.lines[n].type = "assistant"
             THEN stream.lines[n].content ELSE <<>>)

RECURSIVE C33_Flatten(_)
C33_Flatten(ss) == IF ss = <<>> THEN <<>> ELSE Head(ss) \o C33_Flatten(Tail(ss))

C33_IsText(b) == b.type = "text"

C33_Texts(n) ==
    LET bs == SelectSeq(C33_Blocks(n), C33_IsText)
    IN  C33_Flatten([i \in 1..Len(bs) |-> bs[i].text])

(* the paths of Write and Bash blocks, as met *)
C33_Seen(n) ==
    LET bs == C33_Blocks(n)
    IN  C33_Flatten([i \in 1..Len(bs) |->
            IF bs[i].type = "tool_use" /\ bs[i].name = "Write" THEN <<bs[i].file_path>>
            ELSE IF bs[i].type = "tool_use" /\ bs[i].name = "Bash"
                 THEN redirectPattern(bs[i].command) \o outputFlagPattern(bs[i].command)
                 ELSE <<>>])

C33_First(seen, p) == CHOOSE k \in 1..Len(seen) : seen[k] = p /\ \A j \in 1..(k - 1) : seen[j] # p

(* C33: after any number of stdout lines the collected text is the         *)
(* concatenation, in stream order, of the text blocks of the assistant     *)
(* records read, and the created-files list holds every path of a Write or *)
(* Bash tool_use of those records exactly once, in first-seen order; no    *)
(* other record, line or tool adds anything.                               *)
C33_TextAndFiles ==
    LET seen == C33_Seen(stream.read)
        cf == stream.createdFiles
    IN  /\ stream.fullResponse = C33_Texts(stream.read)
        /\ Range(cf) = Range(seen)
        /\ \A i, j \in 1..Len(cf) : i # j => cf[i] # cf[j]
        /\ \A i, j \in 1..Len(cf) : i < j => C33_First(seen, cf[i]) < C33_First(seen, cf[j])

(* a whole stream with two text characters and a path met twice has been   *)
(* read                                                                    *)
C33_Witness ==
    /\ stream.read = Len(stream.lines)
    /\ stream.read = MaxLines
    /\ Len(stream.fullResponse) >= 2
    /\ Len(stream.createdFiles) >= 2
    /\ Len(C33_Seen(stream.read)) > Len(stream.createdFiles)


(* C34: setting the working directory of a user without a session changes  *)
(* nothing (no session appears, the registry and its file are as before);  *)
(* with a session it changes the WorkDir field of that session alone; and  *)
(* no turn in flight changes, the directory it was started with included.  *)
C34_Step ==
    (cd.pc \in {"got", "set"} /\ cd' = IdleCd /\ ops' = ops) =>
        /\ cd.user \notin DOMAIN sessions => (sessions' = sessions /\ disk' = disk)
        /\ cd.user \in DOMAIN sessions =>
              /\ DOMAIN sessions' = DOMAIN sessions
              /\ \A v \in DOMAIN sessions : v # cd.user => sessions'[v] = sessions[v]
              /\ sessions'[cd.user] =
                     [sessions[cd.user] EXCEPT !.WorkDir = sessions'[cd.user].WorkDir]
        /\ turn' = turn
        /\ procs' = procs

C34_SetWorkDirFrame == [][C34_Step]_vars

(* a turn in flight runs in the directory of its start while its session   *)
(* has been given another one                                              *)
C34_Witness ==
    \E t \in Slots :
        /\ turn[t].pc = "run"
        /\ turn[t].user \in DOMAIN sessions
        /\ sessions[turn[t].user].ID = turn[t].sid
        /\ sessions[turn[t].user].WorkDir # turn[t].workDir


(* ===================== retention of the memory files =================== *)
(* the largest memory.retention_days of a modelled run *)
MaxRetentionDays == 1

(* the day on which the pass runs: late enough for every cutoff *)
TreeClock == 6 * MaxRetentionDays + 1

Tiers == {"conversations", "daily", "summaries"}

(* an entry of the tree under basePath: the directory of the first level   *)
(* it lies in, whether it is a directory, its modification day             *)
TreeEntry(dir, isDir, mtime) == [dir |-> dir, isDir |-> isDir, mtime |-> mtime]

(* a tree: per tier an old user directory and one regular file in it, and  *)
(* an old file outside the three tiers                                     *)
TreeOf(mtimes) ==
    {TreeEntry(d, TRUE, 0) : d \in Tiers}
    \cup {TreeEntry(d, FALSE, mtimes[d]) : d \in Tiers}
    \cup {TreeEntry("other", FALSE, 0)}

cleanDir_AtCutoff(fs, dir, nowDay, maxDays) ==
    LET cutoff == nowDay - maxDays
    IN  {f \in fs : ~(f.dir = dir /\ ~f.isDir /\ f.mtime <= cutoff)}

(* format_test.go:648-666: Walk, skipping directories, removing the files  *)
(* whose ModTime is Before(cutoff)                                         *)
cleanDir(fs, dir, nowDay, maxDays) ==
    LET cutoff == nowDay - maxDays
    IN  {f \in fs : ~(f.dir = dir /\ ~f.isDir /\ f.mtime < cutoff)}

(* format_test.go:624-646: MemoryManager.CleanOldFiles *)
MemoryCleanOldFiles(fs, enabled, retentionDays, nowDay) ==
    IF ~enabled \/ retentionDays <= 0 THEN fs
    ELSE cleanDir(cleanDir(cleanDir(fs, "conversations", nowDay, retentionDays),
                           "daily", nowDay, retentionDays * 2),
                  "summaries", nowDay, retentionDays * 6)

TreeInit ==
    /\ sessions = EmptyMap
    /\ disk = {}
    /\ procs = EmptyMap
    /\ nextID = 1
    /\ now = 0
    /\ turn = [t \in Slots |-> IdleTurn]
    /\ kill = IdleKill
    /\ cd = IdleCd
    /\ flushQueue = {}
    /\ flushed = {}
    /\ ops = 0
    /\ QueueIdle
    /\ DispatchIdle
    /\ MemIdle
    /\ SweepIdle
    /\ EnvIdle
    /\ SendIdle
    /\ TurnIdle
    /\ BatchIdle
    /\ BotIdle
    /\ RetentionIdle
    /\ LockIdle
    /\ SummaryIdle
    /\ StreamIdle
    /\ RateIdle
    /\ RaceIdle
    /\ \E mt \in [Tiers -> 0..TreeClock], en \in BOOLEAN, d \in (-1)..MaxRetentionDays :
           tree = [NoTree EXCEPT !.files = TreeOf(mt), !.enabled = en, !.days = d,
                                 !.clock = TreeClock]

(* one retention pass *)
RetentionPass ==
    /\ ~tree.passed
    /\ tree' = [tree EXCEPT !.passed = TRUE,
                            !.before = tree.files,
                            !.files = MemoryCleanOldFiles(tree.files, tree.enabled,
                                                          tree.days, tree.clock)]

TreeNext ==
    \/ RetentionPass /\ UNCHANGED <<coreVars, queueVars, dispatchVars, memVars, sweepVars, envVars, sendVars, turnVars, batchVars, botVars, retentionVars, lockVars, summaryVars, streamVars, rateVars, raceVars>>

TreeSpec == TreeInit /\ [][TreeNext]_vars

(* the age in days from which a regular file of a tier is deleted *)
C35_Factor(dir) ==
    IF dir = "conversations" THEN 1 ELSE IF dir = "daily" THEN 2
    ELSE IF dir = "summaries" THEN 6 ELSE 0

C35_Expired(f) ==
    /\ tree.enabled
    /\ tree.days > 0
    /\ ~f.isDir
    /\ f.dir \in Tiers
    /\ f.mtime < tree.clock - C35_Factor(f.dir) * tree.days

(* C35: a retention pass deletes exactly the regular files older than the  *)
(* cutoff of their tier (D, 2D, 6D days before now, strictly); files at or *)
(* after the cutoff, directories and files elsewhere stay; with D <= 0 or  *)
(* memory disabled nothing is deleted.                                     *)
C35_RetentionPass ==
    tree.passed => tree.files = {f \in tree.before : ~C35_Expired(f)}

(* a pass that deleted a file and kept one whose time is the cutoff *)
C35_Witness ==
    /\ tree.passed
    /\ tree.files # tree.before
    /\ \E f \in tree.files :
           /\ ~f.isDir
           /\ f.dir \in Tiers
           /\ f.mtime = tree.clock - C35_Factor(f.dir) * tree.days


(* C36: the completion steps of a turn (status back to active, assignment  *)
(* of the conversation id, wiping it on session-expired) leave the status  *)
(* and the conversation id of every session other than the one the turn    *)
(* started on unchanged.                                                   *)
C36_Completes(t) ==
    \/ turn[t].pc = "run" /\ turn'[t].pc = "exited"
    \/ turn[t].pc = "exited" /\ turn'[t].pc = "ret"
    \/ turn[t].pc = "run" /\ turn'[t].pc = "run" /\ turn'[t].claude # turn[t].claude

C36_Step ==
    \A t \in Slots :
        C36_Completes(t) =>
            \A u \in DOMAIN sessions :
                sessions[u].ID # turn[t].sid =>
                    /\ u \in DOMAIN sessions'
                    /\ sessions'[u].Status = sessions[u].Status
                    /\ sessions'[u].ClaudeSessionID = sessions[u].ClaudeSessionID

C36_CompletionOnOwnSession == [][C36_Step]_vars


(* C37: the cancel-handle map holds an entry for a session id only while a *)
(* turn of that session is in flight: every entry is the handle of a turn  *)
(* on that session whose subprocess has been started and whose SendMessage *)
(* has not reached its cleanup, and with no SendMessage call in progress   *)
(* the map is empty.                                                       *)
C37_ProcsOnlyInFlight ==
    /\ \A sid \in DOMAIN procs :
           /\ turn[procs[sid]].pc = "run"
           /\ turn[procs[sid]].sid = sid
    /\ (\A t \in Slots : turn[t].pc = "idle") => procs = EmptyMap

(* the handle of a turn in flight is registered although its session has   *)
(* already been removed from the registry                                  *)
C37_Witness ==
    \E sid \in DOMAIN procs :
        /\ turn[procs[sid]].pc = "run"
        /\ \A u \in DOMAIN sessions : sessions[u].ID # sid


(* ================= racing destructions of one session ================== *)
(* at most this many calls (KillSession, CleanStale, clock ticks) in a run *)
MaxRaceCalls == 3

(* the registries a race starts from: u1 has a session with or without     *)
(* messages, u2 has one with a message or none                             *)
RaceRegistries ==
    { ("u1" :> [NewSession("s1", "u1", "u1") EXCEPT !.MessageCount = c]) @@ r2 :
        c \in {0, 1},
        r2 \in {EmptyMap,
                "u2" :> [NewSession("s2", "u2", "u2") EXCEPT !.MessageCount = 1]} }

RaceInit ==
    /\ now = 0
    /\ \E reg \in RaceRegistries : sessions = reg /\ disk = saveToDisk(reg)
    /\ procs = EmptyMap
    /\ nextID = 3
    /\ turn = [t \in Slots |-> IdleTurn]
    /\ kill = IdleKill
    /\ cd = IdleCd
    /\ flushQueue = {}
    /\ flushed = {}
    /\ ops = 0
    /\ QueueIdle
    /\ DispatchIdle
    /\ MemIdle
    /\ SweepIdle
    /\ EnvIdle
    /\ SendIdle
    /\ TurnIdle
    /\ BatchIdle
    /\ BotIdle
    /\ RetentionIdle
    /\ LockIdle
    /\ SummaryIdle
    /\ StreamIdle
    /\ TreeIdle
    /\ RateIdle
    /\ RaceIdle

KillDelete_Forget(reg, u) == reg

(* session.go:178: delete(sm.sessions, userID) *)
KillDelete(reg, u) == Remove(reg, u)

(* session.go:160-180: the locked part of KillSession, run by handler h *)
RaceKillLocked(h, u) ==
    /\ race.k[h].pc = "idle"
    /\ race.calls < MaxRaceCalls
    /\ IF u \notin DOMAIN sessions
       THEN /\ race' = [race EXCEPT !.k[h] = [IdleKill EXCEPT !.pc = "ret", !.user = u,
                                                              !.res = FALSE],
                                    !.calls = @ + 1]
            /\ UNCHANGED <<sessions, disk, procs, turn>>
       ELSE LET s == sessions[u]
            IN  /\ turn' = Cancel(turn, procs, {s.ID})
                /\ procs' = Remove(procs, s.ID)
                /\ sessions' = KillDelete(sessions, u)
                /\ disk' = saveToDisk(sessions')
                /\ race' = [race EXCEPT !.k[h] = [pc |-> "flush", user |-> u, sid |-> s.ID,
                                                  count |-> s.MessageCount, found |-> TRUE,
                                                  res |-> FALSE],
                                        !.removed[s.ID] = @ + 1,
                                        !.calls = @ + 1]
    /\ UNCHANGED <<nextID, now, kill, cd, flushQueue, flushed, ops>>

(* session.go:182-187: the synchronous flush, then return true *)
RaceKillFlush(h) ==
    /\ race.k[h].pc = "flush"
    /\ flushed' = IF KillNeedsFlush(race.k[h].count)
                  THEN flushed \cup {race.k[h].sid} ELSE flushed
    /\ race' = [race EXCEPT !.k[h].pc = "ret", !.k[h].res = TRUE,
                            !.flushes[race.k[h].sid] =
                                IF KillNeedsFlush(race.k[h].count) THEN @ + 1 ELSE @,
                            !.credited = @ + 1]
    /\ UNCHANGED <<sessions, disk, procs, nextID, now, turn, kill, cd, flushQueue, ops>>

(* the caller of KillSession has the result *)
RaceKillReturn(h) ==
    /\ race.k[h].pc = "ret"
    /\ race' = [race EXCEPT !.k[h] = IdleKill]
    /\ UNCHANGED coreVars

(* session.go:234-302: one run of the sweeper; it returns len(stale) *)
RaceCleanStale(dailyResetActive) ==
    /\ race.calls < MaxRaceCalls
    /\ LET stale == StaleUsers(sessions, TimeoutMinutes, dailyResetActive)
           toFlush == {sessions[u].ID : u \in {v \in stale :
                                                  StaleNeedsFlush(sessions[v].MessageCount)}}
       IN  /\ Sweep(stale)
           /\ race' = [race EXCEPT
                  !.calls = @ + 1,
                  !.removed = [id \in RaceIDs |->
                                  @[id] + (IF \E u \in stale : sessions[u].ID = id
                                           THEN 1 ELSE 0)],
                  !.flushes = [id \in RaceIDs |-> @[id] + (IF id \in toFlush THEN 1 ELSE 0)],
                  !.credited = @ + Cardinality(stale)]
    /\ UNCHANGED ops

(* a minute passes *)
RaceTick ==
    /\ race.calls < MaxRaceCalls
    /\ now' = now + 1
    /\ race' = [race EXCEPT !.calls = @ + 1]
    /\ UNCHANGED <<sessions, disk, procs, nextID, turn, kill, cd, flushQueue, flushed, ops>>

RaceRest == <<queueVars, dispatchVars, memVars, sweepVars, envVars, sendVars, turnVars, batchVars, botVars, retentionVars, lockVars, summaryVars, streamVars, treeVars, rateVars>>

RaceNext ==
    \/ (\E h \in Handlers, u \in Users : RaceKillLocked(h, u)) /\ UNCHANGED RaceRest
    \/ (\E h \in Handlers : RaceKillFlush(h)) /\ UNCHANGED RaceRest
    \/ (\E h \in Handlers : RaceKillReturn(h)) /\ UNCHANGED RaceRest
    \/ (\E r \in BOOLEAN : RaceCleanStale(r)) /\ UNCHANGED RaceRest
    \/ (\E id \in flushQueue : FlushAsync(id)) /\ UNCHANGED <<RaceRest, raceVars>>
    \/ RaceTick /\ UNCHANGED RaceRest

RaceSpec == RaceInit /\ [][RaceNext]_vars

C38_Total(f) == f["s1"] + f["s2"]

(* C38: however KillSession calls and sweeper runs interleave, a session   *)
(* is removed by exactly one of them and its destruction flush is started  *)
(* at most once; a KillSession that finds the session gone returns false,  *)
(* and the removals the callers were told of (true results, cleaned        *)
(* counts) are the removals made.                                          *)
C38_OneDestroyer ==
    /\ \A id \in RaceIDs : race.removed[id] <= 1 /\ race.flushes[id] <= race.removed[id]
    /\ \A h \in Handlers : race.k[h].pc = "ret" => race.k[h].res = race.k[h].found
    /\ race.credited + Cardinality({h \in Handlers : race.k[h].pc = "flush"})
           = C38_Total(race.removed)

(* u1's session was removed and flushed once, and a KillSession for u1     *)
(* found it gone while another KillSession or the sweeper had it           *)
C38_Witness ==
    /\ race.removed["s1"] = 1
    /\ race.flushes["s1"] = 1
    /\ \E h \in Handlers :
           /\ race.k[h].pc = "ret"
           /\ race.k[h].user = "u1"
           /\ ~race.k[h].found


(* C39: the last_activity_at of a session changes only in the step that    *)
(* accepts a turn on it: in every other step a session that stays in the   *)
(* registry keeps its value.                                               *)
C39_Accepts(id) ==
    \E t \in Slots : turn[t].pc = "idle" /\ turn'[t].pc = "spawn" /\ turn'[t].sid = id

C39_Step ==
    \A u \in DOMAIN sessions \cap DOMAIN sessions' :
        (/\ sessions'[u].ID = sessions[u].ID
         /\ sessions'[u].LastActivityAt # sessions[u].LastActivityAt)
            => C39_Accepts(sessions[u].ID)

C39_ActivityOnlyAtAccept == [][C39_Step]_vars


(* ============================ the rate limiter ========================= *)
(* security.rate_limit_per_minute of the modelled run *)
RateLimitPerMinute == 1

(* at most this many calls, cleanings and clock advances in a run *)
MaxRateSteps == 6

(* bot.go:421 and 441: window := int64(60_000) *)
window == 60000

(* the milliseconds by which the clock moves between two steps *)
RateAdvances == {30000, 60000}

(* b.rateMap[userID]: nil for a user without an entry *)
Timestamps(rm, u) == IF u \in DOMAIN rm THEN rm[u] ELSE <<>>

(* bot.go:424-429 and 444-449: the timestamps still inside the window *)
Recent(timestamps, nowMs) == SelectSeq(timestamps, LAMBDA t : nowMs - t < window)

(* bot.go:423-431: the entry isRateLimited leaves for the user *)
Stamp(rm, u, nowMs) == Put(rm, u, Append(Recent(Timestamps(rm, u), nowMs), nowMs))

(* bot.go:416-434 *)
isRateLimited(rm, u, nowMs) == Len(Stamp(rm, u, nowMs)[u]) > RateLimitPerMinute

cleanRateMap_Clear(rm, nowMs) == EmptyMap

(* bot.go:437-456 *)
cleanRateMap(rm, nowMs) ==
    LET keep == {u \in DOMAIN rm : Recent(rm[u], nowMs) # <<>>}
    IN  [u \in keep |-> Recent(rm[u], nowMs)]

RateInit ==
    /\ sessions = EmptyMap
    /\ disk = {}
    /\ procs = EmptyMap
    /\ nextID = 1
    /\ now = 0
    /\ turn = [t \in Slots |-> IdleTurn]
    /\ kill = IdleKill
    /\ cd = IdleCd
    /\ flushQueue = {}
    /\ flushed = {}
    /\ ops = 0
    /\ QueueIdle
    /\ DispatchIdle
    /\ MemIdle
    /\ SweepIdle
    /\ EnvIdle
    /\ SendIdle
    /\ TurnIdle
    /\ BatchIdle
    /\ BotIdle
    /\ RetentionIdle
    /\ LockIdle
    /\ SummaryIdle
    /\ StreamIdle
    /\ TreeIdle
    /\ RateIdle
    /\ RaceIdle

(* bot.go:304: a message of user u reaches the limiter; beside the bot's   *)
(* map a second map is kept that is never cleaned                          *)
RateCall(u) ==
    /\ rate.steps < MaxRateSteps
    /\ rate' = [rate EXCEPT
           !.steps = @ + 1,
           !.rateMap = Stamp(@, u, rate.clock),
           !.plain = Stamp(@, u, rate.clock),
           !.calls = Append(@, [user |-> u, at |-> rate.clock,
                                answer |-> isRateLimited(rate.rateMap, u, rate.clock),
                                plain |-> isRateLimited(rate.plain, u, rate.clock)])]

(* main.go:88: the ticker calls cleanRateMap *)
RateClean ==
    /\ rate.steps < MaxRateSteps
    /\ rate' = [rate EXCEPT
           !.steps = @ + 1,
           !.rateMap = cleanRateMap(@, rate.clock),
           !.cleans = IF cleanRateMap(rate.rateMap, rate.clock) # rate.rateMap
                      THEN @ + 1 ELSE @]

(* time passes *)
RateAdvance(d) ==
    /\ rate.steps < MaxRateSteps
    /\ rate' = [rate EXCEPT !.steps = @ + 1, !.clock = @ + d]

RateRest == <<coreVars, queueVars, dispatchVars, memVars, sweepVars, envVars, sendVars, turnVars, batchVars, botVars, retentionVars, lockVars, summaryVars, streamVars, treeVars, raceVars>>

RateNext ==
    \/ (\E u \in Users : RateCall(u)) /\ UNCHANGED RateRest
    \/ RateClean /\ UNCHANGED RateRest
    \/ (\E d \in RateAdvances : RateAdvance(d)) /\ UNCHANGED RateRest

RateSpec == RateInit /\ [][RateNext]_vars

(* the calls of the same user, the i-th included, made less than a window  *)
(* before the i-th                                                         *)
C40_Within(i) ==
    {j \in 1..i : /\ rate.calls[j].user = rate.calls[i].user
                  /\ rate.calls[i].at - rate.calls[j].at < window}

(* C40: a call of isRateLimited answers true exactly when the user has     *)
(* made, that call and rejected ones included, more than                   *)
(* rate_limit_per_minute calls within the 60 seconds before it; and the    *)
(* answers are those of a limiter whose map is never cleaned.              *)
C40_RateLimit ==
    \A i \in 1..Len(rate.calls) :
        /\ rate.calls[i].answer = (Cardinality(C40_Within(i)) > RateLimitPerMinute)
        /\ rate.calls[i].answer = rate.calls[i].plain

(* a cleaning has removed timestamps, and a later call was refused while   *)
(* an older call of that user had left the window                          *)
C40_Witness ==
    /\ rate.cleans >= 1
    /\ \E i \in 1..Len(rate.calls) :
           /\ rate.calls[i].answer
           /\ \E j \in 1..i : /\ rate.calls[j].user = rate.calls[i].user
                              /\ rate.calls[i].at - rate.calls[j].at >= window

====
